---- MODULE Spec2Model ----
(***************************************************************************)
(* Model of the newsletter ingestion pipeline of backend/processor.py:     *)
(* NewsletterProcessor.process_newsletter (fetch, parse, upsert, delete,   *)
(* group, bounded-concurrency group processing, threshold decision,        *)
(* persistence) and the grouping automaton _group_segments.                *)
(***************************************************************************)
EXTENDS Integers, Sequences, FiniteSets, TLC

\* ------------------------------------------------------------------ bounds
MaxSegs == 4        \* elements of a fetched document, single call (Spec)
MaxRerunSegs == 2   \* elements of a fetched document, call and re-call (SpecRerun)
MaxLen == 4         \* segments handed to _group_segments on its own (SpecGroup)
MaxStoreSegs == 3   \* elements of a document whose group insert is answered with
                    \* any rows in any order (SpecStore)
MaxDocLen == 3      \* elements of a document handed to _parse_newsletter on its
                    \* own (SpecParse)
MaxLiveSegs == 3    \* elements of a fetched document, call under fairness
                    \* (SpecTerminates)
MaxAudioSegs == 3   \* elements of a fetched document, secondary-language audio
                    \* failing (SpecAudio)
MaxCallLen == 3     \* segments the group of a stand-alone call of process_group
                    \* is made of (SpecProcessGroup)
MaxDiscordLen == 4  \* elements of a document with Discord sections handed to
                    \* _parse_newsletter (SpecDiscord)
MaxChunks == 82       \* audio chunks a client sends over one voice WebSocket
MaxFaultChunks == 1   \* audio chunks of a client whose Gemini Live calls may raise
MaxTexts == 1         \* text messages a client sends once the loops run
MaxClock == 3         \* ticks of the event loop's clock during one voice session
TicksPerSecond == 2   \* ticks of that clock in the 1.0 s of the command window
MaxSessions == 3      \* Gemini Live sessions one VoiceSession opens
MaxBackfillSegs == 3  \* elements of the document of an issue that is backfilled
                      \* (SpecBackfill)
MaxWebSegs == 1     \* elements of a fetched document, concurrent requests (SpecWeb)
MaxProcSegs == 2    \* elements of a document whose groups are processed with
                    \* every reply of the text-transform collaborator (SpecProcess)

\* --------------------------------------------------------------- constants
\* Both are read from config.yaml (maxConcurrentSegments, segmentBatchSize);
\* the values below are a configuration under which the semaphore blocks and
\* the segment insert takes more than one batch.
MAX_CONCURRENT_SEGMENTS == 2
SEGMENT_BATCH_SIZE == 2

\* A call of process_newsletter and a later call on the store it left.
Runs == {1, 2}
Urls == <<"u1", "u2">>
None == <<>>                      \* None / null for identifiers and options
NoText == "None"                  \* None / null in a text field
SegmentTypes == {"section_header", "topic_header", "item"}
Texts == {"A", "B", "General"}
TextAt(i) == <<"A", "B", "C", "D", "E", "F", "G", "H">>[i]

Min(a, b) == IF a < b THEN a ELSE b

\* ------------------------------------------------------------------- texts
\* A text is a string; SubSeq, Len and \o act on its characters.
CharAt(text, i) == SubSeq(text, i, i)
Chars(text) == {CharAt(text, i) : i \in 1..Len(text)}
UpperCase == "ABCDEFGHIJKLMNOPQRSTUVWXYZ"
LowerCase == "abcdefghijklmnopqrstuvwxyz"
Digits == "0123456789"
\* \w of a regular expression: letters, digits and the underscore
WordChars == Chars(UpperCase) \cup Chars(LowerCase) \cup Chars(Digits) \cup {"_"}

UpperChars == Chars(UpperCase)
LowerOf ==
    [c \in UpperChars |->
        CharAt(LowerCase, CHOOSE i \in 1..Len(UpperCase) : CharAt(UpperCase, i) = c)]
LowerChar(c) == IF c \in UpperChars THEN LowerOf[c] ELSE c

\* str.lower()
RECURSIVE ToLower(_)
ToLower(text) ==
    IF text = "" THEN ""
    ELSE LowerChar(CharAt(text, 1)) \o ToLower(SubSeq(text, 2, Len(text)))

\* re.sub(r"\W+", " ", text): every run of non-word characters becomes one
\* space; in_run tells that the character before was part of such a run
RECURSIVE CollapseNonWord(_, _)
CollapseNonWord(text, in_run) ==
    IF text = "" THEN ""
    ELSE LET c == CharAt(text, 1)
             rest == SubSeq(text, 2, Len(text))
         IN IF c \in WordChars THEN c \o CollapseNonWord(rest, FALSE)
            ELSE IF in_run THEN CollapseNonWord(rest, TRUE)
            ELSE " " \o CollapseNonWord(rest, TRUE)

\* str.strip() of a text whose only whitespace is the space
RECURSIVE Strip(_)
Strip(text) ==
    IF text = "" THEN ""
    ELSE IF CharAt(text, 1) = " " THEN Strip(SubSeq(text, 2, Len(text)))
    ELSE IF CharAt(text, Len(text)) = " " THEN Strip(SubSeq(text, 1, Len(text) - 1))
    ELSE text

\* "sub in text"
Contains(text, sub) ==
    \E i \in 1..(Len(text) - Len(sub) + 1) : SubSeq(text, i, i + Len(sub) - 1) = sub

\* ------------------------------------------------------------------ parser
\* _classify_root_section
ClassifyRootSection(header_text) ==
    LET lowered == ToLower(header_text)
    IN IF Contains(lowered, "ai twitter recap") THEN "twitter"
       ELSE IF Contains(lowered, "ai reddit recap") THEN "reddit"
       ELSE IF Contains(lowered, "ai discord recap") THEN "discord_recap"
       ELSE IF Contains(lowered, "discord: high level") THEN "discord_high_level"
       ELSE IF Contains(lowered, "discord: detailed") THEN "discord_detailed"
       ELSE "other"

\* mutant: the fingerprint keeps the case of the text
FingerprintForDedup_KeepsCase(text) == Strip(CollapseNonWord(text, FALSE))

\* _fingerprint_for_dedup
FingerprintForDedup(text) == Strip(CollapseNonWord(ToLower(text), FALSE))

\* mutant: the counter is not advanced
AddSegment_NoIncrement(st, text, seg_type) ==
    IF text = "" THEN st
    ELSE [st EXCEPT !.segments_data = Append(@, [segment_type |-> seg_type,
                                                 content_raw |-> text,
                                                 order_index |-> st.order_index])]

\* add_segment: append a segment carrying the running order_index counter.
\* st = [segments_data, order_index, current_root_section,
\*       reddit_seen_fingerprints]
AddSegment(st, text, seg_type) ==
    IF text = "" THEN st
    ELSE [st EXCEPT !.segments_data = Append(@, [segment_type |-> seg_type,
                                                 content_raw |-> text,
                                                 order_index |-> st.order_index]),
                    !.order_index = @ + 1]

content_tags == {"p", "li", "div", "blockquote"}
header_tags == {"h1", "h2", "h3", "h4", "h5", "h6"}
ChromeWords == {"nav", "menu", "footer", "subscribe", "button", "share"}
MIN_ITEM_LENGTH == 10
FALLBACK_HEADER_LENGTH == 100

\* mutant: the Discord rule looks at the root section before the heading of
\* the element has been classified
ParseStep_DropsBeforeClassify(st, element, cfg) ==
    LET text == element.text
        rooted == IF element.name = "h1"
                  THEN [st EXCEPT !.current_root_section = ClassifyRootSection(text)]
                  ELSE st
        is_header_like == /\ element.name = "p"
                          /\ element.strong
                          /\ element.strong_text = text
    IN IF text = "" THEN st
       ELSE IF /\ cfg.DISCORD_CONSOLIDATION_MODE = "recap_only"
               /\ st.current_root_section
                      \in {"discord_high_level", "discord_detailed"}
       THEN rooted
       ELSE IF element.name \in header_tags
       THEN IF element.name = "h1" /\ ClassifyRootSection(text) # "other"
            THEN AddSegment(rooted, text, "section_header")
            ELSE AddSegment(rooted, text, "topic_header")
       ELSE IF is_header_like THEN AddSegment(rooted, text, "topic_header")
       ELSE IF Len(text) > MIN_ITEM_LENGTH THEN AddSegment(rooted, text, "item")
       ELSE rooted

\* An element of the walk is a header or content tag without a header or
\* content tag inside it: name, text (its normalised text), cls (its class
\* attribute joined by spaces), strong (it has a <strong> descendant) and
\* strong_text (the normalised text of the first one).
\* One iteration of the loop over article.find_all(...).
ParseStep(st, element, cfg) ==
    LET text == element.text
        rooted == IF element.name = "h1"
                  THEN [st EXCEPT !.current_root_section = ClassifyRootSection(text)]
                  ELSE st
        is_header_like == /\ element.name = "p"
                          /\ element.strong
                          /\ element.strong_text = text
        fingerprint == FingerprintForDedup(text)
        dedup == cfg.REDDIT_LIGHT_DEDUP /\ rooted.current_root_section = "reddit"
        seen == IF dedup
                THEN [rooted EXCEPT !.reddit_seen_fingerprints = @ \cup {fingerprint}]
                ELSE rooted
    IN IF text = "" THEN st
       ELSE IF /\ cfg.DISCORD_CONSOLIDATION_MODE = "recap_only"
               /\ rooted.current_root_section
                      \in {"discord_high_level", "discord_detailed"}
       THEN rooted
       ELSE IF \E x \in ChromeWords : Contains(element.cls, x) THEN rooted
       ELSE IF element.name \in header_tags
       THEN IF element.name = "h1" /\ ClassifyRootSection(text) # "other"
            THEN AddSegment(rooted, text, "section_header")
            ELSE AddSegment(rooted, text, "topic_header")
       ELSE IF element.name \in content_tags
       THEN IF is_header_like THEN AddSegment(rooted, text, "topic_header")
            ELSE IF dedup /\ fingerprint \in rooted.reddit_seen_fingerprints THEN rooted
            ELSE IF Len(text) > MIN_ITEM_LENGTH THEN AddSegment(seen, text, "item")
            ELSE seen
       ELSE rooted

RECURSIVE ParseWalk(_, _, _)
ParseWalk(elements, st, cfg) ==
    IF elements = <<>> THEN st
    ELSE ParseWalk(Tail(elements), ParseStep(st, Head(elements), cfg), cfg)

\* article.get_text(" ", strip=True), normalised: the text outside the
\* elements of the walk (loose) and the texts of the elements, joined by
\* spaces.  The texts of the documents neither start with a closing
\* punctuation mark nor end with an opening bracket, so that the
\* normalisation leaves the joining spaces in place.
RECURSIVE JoinTexts(_)
JoinTexts(texts) ==
    IF texts = <<>> THEN ""
    ELSE IF Len(texts) = 1 THEN texts[1]
    ELSE texts[1] \o " " \o JoinTexts(Tail(texts))
NonEmpty(text) == text # ""
WholeText(doc) ==
    JoinTexts(SelectSeq(<<doc.loose>> \o [k \in 1..Len(doc.elements) |->
                                             doc.elements[k].text], NonEmpty))

\* the state of the walk at its start
WalkStart ==
    [segments_data |-> <<>>, order_index |-> 0, current_root_section |-> "other",
     reddit_seen_fingerprints |-> {}]

\* the fallback when the walk found no segment
Fallback(st, text) ==
    IF text # ""
    THEN AddSegment(AddSegment(st, SubSeq(text, 1, Min(FALLBACK_HEADER_LENGTH, Len(text)))
                                        \o "...", "section_header"),
                    text, "item")
    ELSE st

\* _parse_newsletter: the segments of a document, doc = [elements, loose]
ParseNewsletter(doc, cfg) ==
    LET walked == ParseWalk(doc.elements, WalkStart, cfg)
    IN IF walked.segments_data = <<>>
       THEN Fallback(walked, WholeText(doc)).segments_data
       ELSE walked.segments_data

\* ----------------------------------------------------------------- grouper
\* mutant: every group is created without the section-header flag
NewGroup_NeverSection(label, group_order, is_section) ==
    [label |-> label, segments |-> <<>>, order_index |-> group_order,
     is_section_header |-> FALSE]

\* the group dict a header or an orphan item creates (the placeholder's
\* missing is_section_header key reads as false)
NewGroup(label, group_order, is_section) ==
    [label |-> label, segments |-> <<>>, order_index |-> group_order,
     is_section_header |-> is_section]

\* mutant: a placeholder is created for an item although a group is open
OpenFor_AlwaysPlaceholder(gs) ==
    [groups |-> Append(gs.groups, NewGroup("General", gs.group_order, FALSE)),
     current_group |-> Len(gs.groups) + 1,
     group_order |-> gs.group_order + 1]

\* "if current_group is None": the group an item goes to, created when
\* there is none
OpenFor(gs) ==
    IF gs.current_group = 0
    THEN [groups |-> Append(gs.groups, NewGroup("General", gs.group_order, FALSE)),
          current_group |-> Len(gs.groups) + 1,
          group_order |-> gs.group_order + 1]
    ELSE gs

\* mutant: an item met while no group is open is dropped
GroupStep_OrphanLost(gs, seg) ==
    IF seg.segment_type \in {"topic_header", "section_header"}
    THEN [groups |-> Append(gs.groups,
                            NewGroup(seg.content_raw, gs.group_order,
                                     seg.segment_type = "section_header")),
          current_group |-> Len(gs.groups) + 1,
          group_order |-> gs.group_order + 1]
    ELSE IF seg.segment_type = "item" /\ gs.current_group # 0
    THEN [gs EXCEPT !.groups[gs.current_group].segments = Append(@, seg)]
    ELSE gs

\* One iteration of the loop of _group_segments.
\* gs = [groups, current_group, group_order]; current_group is the position
\* in groups of the dict the code holds a reference to, 0 for None.
GroupStep(gs, seg) ==
    IF seg.segment_type \in {"topic_header", "section_header"}
    THEN [groups |-> Append(gs.groups,
                            NewGroup(seg.content_raw, gs.group_order,
                                     seg.segment_type = "section_header")),
          current_group |-> Len(gs.groups) + 1,
          group_order |-> gs.group_order + 1]
    ELSE IF seg.segment_type = "item"
    THEN LET opened == OpenFor(gs)
             c == opened.current_group
         IN [opened EXCEPT !.groups[c].segments = Append(@, seg)]
    ELSE gs

RECURSIVE GroupWalk(_, _)
GroupWalk(segs, gs) ==
    IF segs = <<>> THEN gs
    ELSE GroupWalk(Tail(segs), GroupStep(gs, Head(segs)))

\* mutant: empty groups are not filtered out
KeepGroup_All(g) == TRUE

\* the filter: groups with segments, and section headers
KeepGroup(g) == g.segments # <<>> \/ g.is_section_header

\* re-index after filtering
Reindex(gl) == [i \in 1..Len(gl) |-> [gl[i] EXCEPT !.order_index = i - 1]]

GroupSegments(segments_data) ==
    LET walked == GroupWalk(segments_data,
                            [groups |-> <<>>, current_group |-> 0, group_order |-> 0])
    IN Reindex(SelectSeq(walked.groups, KeepGroup))

\* ------------------------------------------------------------------- state
VARIABLES
    issues,         \* rows of table "issues": [id, url, processed_at]
    topic_groups,   \* rows of table "topic_groups"
    segments,       \* rows of table "segments"
    group_seq,      \* number of topic_group identifiers the store has assigned
    run,            \* run[r]: the locals of the r-th call of process_newsletter
    in_segments,    \* argument of a stand-alone call of _group_segments
    out_groups,     \* its result
    gpc,            \* position of the stand-alone call
    in_document,    \* argument of a stand-alone call of _parse_newsletter
    in_group,       \* argument of a stand-alone call of process_group
    in_reply,       \* what its collaborators answer
    out_group,      \* its result
    config,         \* class Config: the settings read from config.yaml
    voice,          \* the fields of the VoiceSession of one voice WebSocket
    wire            \* that WebSocket: its handler, the session's tasks, the peers

vars == <<issues, topic_groups, segments, group_seq, run, in_segments, out_groups, gpc,
          in_document, in_group, in_reply, out_group, config, voice, wire>>
store == <<issues, topic_groups, segments, group_seq>>
pure == <<in_segments, out_groups, gpc, in_document, in_group, in_reply, out_group,
          voice, wire>>

NoDocument == [elements |-> <<>>, loose |-> ""]
NoGroup == [label |-> "", segments |-> <<>>, order_index |-> 0,
            is_section_header |-> FALSE]

\* VoiceSession.__init__: no session, the lock free, the stop event clear, the
\* audio queue empty
NoVoice ==
    [session |-> None, session_cm |-> None, session_lock |-> "free",
     stop_event |-> FALSE, audio_queue |-> <<>>, suppress_output |-> FALSE,
     last_command_text |-> NoText, last_command_time |-> 0,
     resume_handle |-> NoText]

\* the tasks of a voice session: listen_to_client, run and the two tasks run creates
Tasks == {"listener", "run", "receiver", "sender"}

\* no text within the 1.5 s that voice_mode_ws waits for one
TimedOut ==
    [raw |-> NoText, json |-> FALSE, type |-> NoText, resumeHandle |-> NoText,
     handle |-> NoText]

\* a voice WebSocket nobody has connected to: the handler and the tasks not
\* started, nothing sent to either peer, no Gemini Live session opened
NoWire ==
    [ws |-> [pc |-> "off", start_payload |-> TimedOut],
     task |-> [t \in Tasks |-> [pc |-> "off", cm |-> None, attempt |-> 0]],
     now |-> 0, arrived |-> 0, texts |-> 0,
     to_client |-> <<>>,
     gemini |-> <<>>,
     heard |-> [calls |-> 0, emitted |-> FALSE, acks |-> <<>>, carried |-> {},
               forwarded |-> {}, awaited |-> FALSE, pending |-> FALSE, last_emit |-> [c \in {"next", "pause"} |-> None],
               same_gap |-> None, row_gap |-> None]]

\* Config as config.py builds it from an empty config.yaml
DefaultConfig ==
    [ENABLE_CHINESE_PROCESSING |-> TRUE,
     DISCORD_CONSOLIDATION_MODE |-> "off",
     REDDIT_LIGHT_DEDUP |-> FALSE]

\* the locals of a call that has not started
BlankRun ==
    \* reply[k] records what the text-transform collaborator answered group k:
    \* how it answered the clean call ("list": a list of the length asked
    \* for) and the positions of the non-null entries of its translate answer;
    \* completed lists the groups as_completed yielded a result for, in the
    \* order it yielded them
    [pc |-> "idle", url |-> "", arg_issue_id |-> None, max_groups |-> None,
     segments_data |-> <<>>, issue_id |-> None, groups |-> <<>>, gstate |-> <<>>,
     processed_groups |-> <<>>, failed_groups |-> 0, inserted_groups |-> <<>>,
     all_segments |-> <<>>, i |-> 0, outcome |-> "none", reply |-> <<>>,
     completed |-> <<>>]

InFlight(r) == run[r].pc \notin {"idle", "done", "raised", "retired", "skipped"}
Finished(r) == run[r].pc \in {"done", "raised"}

\* ------------------------------------------------------ store operations
\* get_issue_status(issue_id): None without an Issue row, otherwise the
\* number of segment rows of the Issue and "completed" when processed_at is
\* set, "processing" when it is not (processed_at 0 stands for null)
GetIssueStatus(issue_rows, segment_rows, issue_id) ==
    LET found == {row \in issue_rows : row.id = issue_id}
        issue == CHOOSE row \in found : TRUE
    IN IF found = {} THEN None
       ELSE <<[segment_count |-> Cardinality({s \in segment_rows :
                                                 s.issue_id = issue_id}),
               status |-> IF issue.processed_at # 0 THEN "completed"
                          ELSE "processing"]>>

\* mutant: the upsert writes a row without completion timestamp
UpsertIssue_ClearsStamp(rows, u, id) ==
    IF \E row \in rows : row.url = u
    THEN {IF row.url = u
          THEN [row EXCEPT !.id = IF id # None THEN id ELSE @, !.processed_at = 0]
          ELSE row : row \in rows}
    ELSE rows \cup {[id |-> IF id # None THEN id ELSE <<"db", Cardinality(rows) + 1>>,
                     url |-> u, processed_at |-> 0]}

\* issues.upsert(issue_data, on_conflict="url"): a row with the url is updated
\* in place (its id only if issue_data carries one), otherwise a row is added,
\* with issue_data's id or one the store generates.
UpsertIssue(rows, u, id) ==
    IF \E row \in rows : row.url = u
    THEN {IF row.url = u /\ id # None THEN [row EXCEPT !.id = id] ELSE row : row \in rows}
    ELSE rows \cup {[id |-> IF id # None THEN id ELSE <<"db", Cardinality(rows) + 1>>,
                     url |-> u, processed_at |-> 0]}

\* mutant: the delete removes nothing
RowsAfterDelete_KeepsAll(rows, id) == rows

\* table.delete().eq("issue_id", id): the rows that stay
RowsAfterDelete(rows, id) == {row \in rows : row.issue_id # id}

\* select("id").eq("url", u): the identifiers on record for the url
SelectIssueIds(rows, u) == {row.id : row \in {x \in rows : x.url = u}}

\* -------------------------------------------------------- process_newsletter
Range(f) == {f[k] : k \in DOMAIN f}

\* groups[:max_groups]
Truncate(gl, mg) == IF mg = None THEN gl ELSE SubSeq(gl, 1, Min(mg[1], Len(gl)))

\* processed_groups.sort(key=order_index): stable insertion sort
RECURSIVE InsertSorted(_, _)
InsertSorted(sorted, g) ==
    IF sorted = <<>> THEN <<g>>
    ELSE IF g.order_index < Head(sorted).order_index THEN <<g>> \o sorted
    ELSE <<Head(sorted)>> \o InsertSorted(Tail(sorted), g)

\* mutant: the groups stay in the order they completed in
SortByOrderIndex_CompletionOrder(gl) == gl

RECURSIVE SortByOrderIndex(_)
SortByOrderIndex(gl) ==
    IF gl = <<>> THEN <<>>
    ELSE InsertSorted(SortByOrderIndex(SubSeq(gl, 1, Len(gl) - 1)), gl[Len(gl)])

\* mutant: the run is aborted only when every group failed
TooManyFailed_OnlyAll(failed, total) == failed > 0 /\ failed = total

\* mutant: the run is aborted when half of the groups failed
TooManyFailed_Half(failed, total) == failed > 0 /\ 2 * failed >= total

\* too many groups failed (more than 50%)
TooManyFailed(failed, total) == failed > 0 /\ 2 * failed > total

\* the rows the group batch insert writes, in the order of the payload,
\* with identifiers from seq on
GroupRows(payload, id, seq, r) ==
    [k \in 1..Len(payload) |->
        [id |-> <<"g", seq + k>>, issue_id |-> id,
         label |-> payload[k].label,
         order_index |-> payload[k].order_index,
         is_section_header |-> payload[k].is_section_header,
         label_zh |-> payload[k].label_zh,
         audio_url |-> payload[k].audio_url,
         audio_duration_ms |-> payload[k].audio_duration_ms,
         audio_url_zh |-> payload[k].audio_url_zh,
         audio_duration_ms_zh |-> payload[k].audio_duration_ms_zh,
         run |-> r]]

\* groups_resp.data: the written rows as the store hands them back; when
\* any_order, some of them or all, in any order
InsertResponses(rows, any_order) ==
    IF ~any_order THEN {rows}
    ELSE UNION {{[j \in 1..m |-> rows[f[j]]] :
                    f \in {h \in [1..m -> 1..Len(rows)] :
                              \A a \in 1..m, b \in 1..m : a # b => h[a] # h[b]}} :
                m \in 0..Len(rows)}

\* mutant: the identifier is taken from the row at the group's position
GroupIdFor_ByPosition(inserted, oi) ==
    IF oi + 1 <= Len(inserted) THEN inserted[oi + 1].id ELSE None

\* mutant: a group without a row of its own gets the first row's identifier
GroupIdFor_FirstRow(inserted, oi) ==
    LET at == {j \in 1..Len(inserted) : inserted[j].order_index = oi}
    IN IF at # {} THEN inserted[CHOOSE j \in at : \A x \in at : x <= j].id
       ELSE IF inserted # <<>> THEN inserted[1].id
       ELSE None

\* group_id_map.get(order_index), group_id_map built from inserted_groups
\* in order (a later row with the same order_index replaces an earlier one)
GroupIdFor(inserted, oi) ==
    LET at == {j \in 1..Len(inserted) : inserted[j].order_index = oi}
    IN IF at # {} THEN inserted[CHOOSE j \in at : \A x \in at : x <= j].id
       ELSE None

\* the segment dict as it is inserted: content_clean falls back to
\* content_raw when the key is missing; a missing column is stored as null
SegmentRow(seg, id, g_id, r) ==
    [issue_id |-> id, topic_group_id |-> g_id, segment_type |-> seg.segment_type,
     content_raw |-> seg.content_raw, order_index |-> seg.order_index,
     content_clean |-> IF "content_clean" \in DOMAIN seg THEN seg.content_clean
                       ELSE seg.content_raw,
     content_raw_zh |-> IF "content_raw_zh" \in DOMAIN seg THEN seg.content_raw_zh
                        ELSE NoText,
     content_clean_zh |-> IF "content_clean_zh" \in DOMAIN seg THEN seg.content_clean_zh
                          ELSE NoText,
     audio_url |-> IF "audio_url" \in DOMAIN seg THEN seg.audio_url ELSE None,
     audio_duration_ms |-> IF "audio_duration_ms" \in DOMAIN seg
                           THEN seg.audio_duration_ms ELSE None,
     audio_url_zh |-> IF "audio_url_zh" \in DOMAIN seg THEN seg.audio_url_zh ELSE None,
     audio_duration_ms_zh |-> IF "audio_duration_ms_zh" \in DOMAIN seg
                              THEN seg.audio_duration_ms_zh ELSE None,
     run |-> r]

\* the loop that prepares all_segments
RECURSIVE PrepareSegments(_, _, _, _)
PrepareSegments(pgs, inserted, id, r) ==
    IF pgs = <<>> THEN <<>>
    ELSE LET g == Head(pgs)
             g_id == GroupIdFor(inserted, g.order_index)
             rest == PrepareSegments(Tail(pgs), inserted, id, r)
         IN IF g_id = None THEN rest
            ELSE [k \in 1..Len(g.segments) |-> SegmentRow(g.segments[k], id, g_id, r)]
                 \o rest

\* ------------------------------------------------------------ process_group
\* "if group['label']" / "if label_zh": a text that is neither None nor empty
Truthy(text) == text # NoText /\ text # ""

\* What the text-transform collaborator did on one call: it raised, or its
\* reply was not JSON, or JSON but no list, or the list data.
Failure(kind) == [kind |-> kind, data |-> <<>>]
FailureKinds == {"exception", "non_json", "non_list"}
CleanEntries == {"", NoText, "spoken"}
TranslateEntries == {NoText, "zh"}
\* the replies to a call on n texts: the failures, every list of the right
\* length over the entries, a list one shorter and a list one longer
Replies(n, entries) ==
    {Failure(kind) : kind \in FailureKinds}
        \cup {[kind |-> "list", data |-> d] : d \in [1..n -> entries]}
        \cup {[kind |-> "list", data |-> [k \in 1..m |-> CHOOSE e \in entries : Truthy(e)]] :
                 m \in {n - 1, n + 1}}

\* mutant: the length of the list is not checked
CleanTextsBatch_Unchecked(texts, reply) ==
    IF texts = <<>> THEN <<>>
    ELSE IF reply.kind # "list" THEN texts
    ELSE reply.data

\* _clean_texts_batch: the reply when it is a list of the length of texts,
\* texts otherwise
CleanTextsBatch(texts, reply) ==
    IF texts = <<>> THEN <<>>
    ELSE IF reply.kind # "list" THEN texts
    ELSE IF Len(reply.data) # Len(texts) THEN texts
    ELSE reply.data

\* mutant: the length of the translated list is not checked
TranslateTextsBatch_Unchecked(texts, reply) ==
    IF texts = <<>> THEN <<>>
    ELSE IF reply.kind # "list" THEN [k \in 1..Len(texts) |-> NoText]
    ELSE reply.data

\* mutant: a reply that is no list of the right length is answered with texts
TranslateTextsBatch_EchoesInput(texts, reply) ==
    IF texts = <<>> THEN <<>>
    ELSE IF reply.kind # "list" THEN texts
    ELSE IF Len(reply.data) # Len(texts) THEN texts
    ELSE reply.data

\* _translate_texts_batch: the reply when it is a list of the length of
\* texts, [None] * len(texts) otherwise
TranslateTextsBatch(texts, reply) ==
    IF texts = <<>> THEN <<>>
    ELSE IF reply.kind # "list" THEN [k \in 1..Len(texts) |-> NoText]
    ELSE IF Len(reply.data) # Len(texts) THEN [k \in 1..Len(texts) |-> NoText]
    ELSE reply.data

\* texts_to_clean: the label when present, then the raw text of each segment
TextsToClean(group) ==
    (IF Truthy(group.label) THEN <<group.label>> ELSE <<>>)
        \o [k \in 1..Len(group.segments) |-> group.segments[k].content_raw]

\* [t for t in translated_texts if t is not None]
NotNone(text) == text # NoText
TextsToCleanZh(translated_texts) == SelectSeq(translated_texts, NotNone)

\* mutant: the cleaned translation is read at the position of the translation
MapBack_ByIndex(translated_texts, cleaned_zh_list) ==
    [k \in 1..Len(translated_texts) |->
        IF translated_texts[k] # NoText /\ k <= Len(cleaned_zh_list)
        THEN cleaned_zh_list[k]
        ELSE NoText]

\* the cleaned translations put back at the positions of the translations
\* they were made from: next(cleaned_zh_iter) at a translated position
MapBack(translated_texts, cleaned_zh_list) ==
    [k \in 1..Len(translated_texts) |->
        IF translated_texts[k] # NoText
        THEN cleaned_zh_list[Cardinality({j \in 1..k : translated_texts[j] # NoText})]
        ELSE NoText]

SectionHeaderOnly(group) == group.is_section_header /\ group.segments = <<>>

\* the texts of the first clean and translate call of process_group
CallTexts(group) ==
    IF SectionHeaderOnly(group)
    THEN (IF Truthy(group.label) THEN <<group.label>> ELSE <<>>)
    ELSE TextsToClean(group)

\* what _generate_audio returns: the public url of the blob it uploaded,
\* named after the group index, the segment index and the language, and the
\* duration read from the MP3, <<milliseconds>>
AudioUrl(group_index, segment_index, language) ==
    <<group_index, segment_index, language>>
AudioDuration == <<1000>>
NoAudio == [url |-> None, duration_ms |-> None]
GenerateAudio(group_index, segment_index, language) ==
    [url |-> AudioUrl(group_index, segment_index, language),
     duration_ms |-> AudioDuration]

\* mutant: the secondary-language fields are filled whether or not the
\* synthesis raised
GenerateAudioZh_IgnoresFailure(enable_chinese, text, group_index, segment_index, raises) ==
    IF enable_chinese /\ Truthy(text)
    THEN GenerateAudio(group_index, segment_index, "zh")
    ELSE NoAudio

\* the secondary-language audio of one text: asked for only with a text to
\* speak; "except Exception" leaves both fields null
GenerateAudioZh(enable_chinese, text, group_index, segment_index, raises) ==
    IF enable_chinese /\ Truthy(text)
    THEN IF raises THEN NoAudio ELSE GenerateAudio(group_index, segment_index, "zh")
    ELSE NoAudio

\* the group process_group returns, from the replies to its calls of the
\* collaborator (reply.clean, reply.translate, reply.clean_zh) and from the
\* secondary-language syntheses that raise (reply.zh_audio_raises: the
\* segment indices); the label prefix of the secondary language is written
\* "Now(zh): " here
ProcessGroup(group, enable_chinese, reply) ==
    LET texts == CallTexts(group)
        cleaned_texts == CleanTextsBatch(texts, reply.clean)
        translated_texts ==
            IF enable_chinese THEN TranslateTextsBatch(texts, reply.translate)
            ELSE [k \in 1..Len(texts) |-> NoText]
        texts_to_clean_zh == TextsToCleanZh(translated_texts)
        cleaned_zh_texts ==
            IF enable_chinese /\ texts_to_clean_zh # <<>>
            THEN MapBack(translated_texts,
                         CleanTextsBatch(texts_to_clean_zh, reply.clean_zh))
            ELSE [k \in 1..Len(texts) |-> NoText]
        idx_offset == IF Truthy(group.label) THEN 1 ELSE 0
        \* "translated_labels[0] if translated_labels else None" for a section
        \* header, translated_texts[0] otherwise
        label_zh == IF enable_chinese /\ Truthy(group.label)
                    THEN IF SectionHeaderOnly(group) /\ translated_texts = <<>>
                         THEN NoText ELSE translated_texts[1]
                    ELSE NoText
        \* of a section header: the prefix and cleaned_zh[0], None when
        \* cleaned_zh is empty
        cleaned_label_zh == CleanTextsBatch(<<label_zh>>, reply.clean_zh)
        label_text_zh == IF enable_chinese /\ Truthy(label_zh)
                                /\ cleaned_label_zh # <<>>
                         THEN "Now(zh): " \o cleaned_label_zh[1] ELSE NoText
        label_audio_zh ==
            IF Truthy(group.label)
            THEN GenerateAudioZh(enable_chinese, label_text_zh, group.order_index, 0,
                                 0 \in reply.zh_audio_raises)
            ELSE NoAudio
        audio_zh(i) ==
            GenerateAudioZh(enable_chinese, cleaned_zh_texts[i + idx_offset],
                            group.order_index, i - 1,
                            (i - 1) \in reply.zh_audio_raises)
    IN IF SectionHeaderOnly(group)
       THEN [label |-> group.label, segments |-> <<>>,
             order_index |-> group.order_index, is_section_header |-> TRUE,
             label_zh |-> label_zh,
             audio_url |-> IF Truthy(group.label)
                           THEN AudioUrl(group.order_index, 0, "en") ELSE None,
             audio_duration_ms |-> IF Truthy(group.label) THEN AudioDuration ELSE <<0>>,
             audio_url_zh |-> label_audio_zh.url,
             audio_duration_ms_zh |-> label_audio_zh.duration_ms]
       ELSE [label |-> group.label,
             segments |->
                 [i \in 1..Len(group.segments) |->
                     [segment_type |-> group.segments[i].segment_type,
                      content_raw |-> group.segments[i].content_raw,
                      order_index |-> group.segments[i].order_index,
                      content_clean |-> cleaned_texts[i + idx_offset],
                      content_raw_zh |-> translated_texts[i + idx_offset],
                      content_clean_zh |-> cleaned_zh_texts[i + idx_offset],
                      audio_url |-> AudioUrl(group.order_index, i - 1, "en"),
                      audio_duration_ms |-> AudioDuration,
                      audio_url_zh |-> audio_zh(i).url,
                      audio_duration_ms_zh |-> audio_zh(i).duration_ms]],
             order_index |-> group.order_index,
             is_section_header |-> group.is_section_header,
             label_zh |-> label_zh,
             \* the group's own audio is no longer used; the payload reads the
             \* secondary-language keys with get(): null
             audio_url |-> None,
             audio_duration_ms |-> <<0>>,
             audio_url_zh |-> None,
             audio_duration_ms_zh |-> None]

\* mutant: a secondary-language synthesis that raises fails the group
ProcessGroupRaises_OnZhAudio(group, enable_chinese, reply) ==
    reply.zh_audio_raises # {}

\* process_group raises on the replies: an index past the end of a list the
\* batch calls handed back, or next() on the exhausted iterator
ProcessGroupRaises(group, enable_chinese, reply) ==
    LET texts == CallTexts(group)
        translated_texts ==
            IF enable_chinese THEN TranslateTextsBatch(texts, reply.translate)
            ELSE [k \in 1..Len(texts) |-> NoText]
        texts_to_clean_zh == TextsToCleanZh(translated_texts)
    IN /\ ~SectionHeaderOnly(group)
       /\ \/ Len(CleanTextsBatch(texts, reply.clean)) < Len(texts)
          \/ Len(translated_texts) < Len(texts)
          \/ /\ enable_chinese
             /\ texts_to_clean_zh # <<>>
             /\ Len(CleanTextsBatch(texts_to_clean_zh, reply.clean_zh))
                    < Len(texts_to_clean_zh)

\* the replies process_group can get for a group: all of them, or, with the
\* collaborator out of reach, an exception on every call
Unasked == [clean |-> "none", translated |-> {}, zh_raised |-> {}]
Answered(group, reply) ==
    [clean |-> IF reply.clean.kind = "list"
                  /\ Len(reply.clean.data) # Len(CallTexts(group))
               THEN "wrong_length" ELSE reply.clean.kind,
     translated |-> {k \in 1..Len(reply.translate.data) :
                       reply.translate.data[k] # NoText},
     zh_raised |-> reply.zh_audio_raises]
Down == [clean |-> Failure("exception"), translate |-> Failure("exception"),
         clean_zh |-> Failure("exception"), zh_audio_raises |-> {}]

\* the segment indices whose secondary-language audio process_group asks for
ZhAudioAsked(group, enable_chinese, reply) ==
    LET g == ProcessGroup(group, enable_chinese, reply)
    IN IF SectionHeaderOnly(group)
       THEN IF g.audio_url_zh # None THEN {0} ELSE {}
       ELSE {i - 1 : i \in {j \in 1..Len(g.segments) :
                                g.segments[j].audio_url_zh # None}}

\* the text-transform collaborator answers well (a translation or null for
\* each text) and any of the secondary-language syntheses raise
Spoken(n) == [kind |-> "list", data |-> [k \in 1..n |-> "spoken"]]
AudioReplies(group, enable_chinese) ==
    LET n == Len(CallTexts(group))
        text(t) == [clean |-> Spoken(n), translate |-> t,
                    clean_zh |-> Spoken(Len(TextsToCleanZh(t.data))),
                    zh_audio_raises |-> {}]
    IN UNION {{[text(t) EXCEPT !.zh_audio_raises = z] :
                  z \in SUBSET ZhAudioAsked(group, enable_chinese, text(t))} :
              t \in {[kind |-> "list", data |-> d] : d \in [1..n -> TranslateEntries]}}

\* collaborators: "down" (the text-transform collaborator is out of reach),
\* "text" (it gives every reply), "audio" (AudioReplies)
GroupReplies(group, enable_chinese, collaborators) ==
    IF collaborators = "down" THEN {Down}
    ELSE IF collaborators = "audio" THEN AudioReplies(group, enable_chinese)
    ELSE LET n == Len(CallTexts(group))
         IN UNION {UNION {{[clean |-> c, translate |-> t, clean_zh |-> z,
                            zh_audio_raises |-> {}] :
                              z \in IF enable_chinese
                                    THEN Replies(Len(TextsToCleanZh(
                                             TranslateTextsBatch(CallTexts(group), t))),
                                                 CleanEntries)
                                    ELSE {Failure("exception")}} :
                             t \in IF enable_chinese THEN Replies(n, TranslateEntries)
                                   ELSE {Failure("exception")}} :
                      c \in Replies(n, CleanEntries)}

\* the fetched documents: one element for each segment type of kinds, with
\* distinct texts: a level-1 recap heading, a level-2 heading, a paragraph
ElementText(kind, k) ==
    IF kind = "section_header" THEN "AI Twitter Recap " \o TextAt(k)
    ELSE IF kind = "topic_header" THEN "Topic " \o TextAt(k)
    ELSE "Item of text " \o TextAt(k)
Element(name, text) ==
    [name |-> name, text |-> text, cls |-> "", strong |-> FALSE, strong_text |-> ""]
Elements(kinds) ==
    [elements |->
         [k \in 1..Len(kinds) |->
             Element(IF kinds[k] = "section_header" THEN "h1"
                     ELSE IF kinds[k] = "topic_header" THEN "h2" ELSE "p",
                     ElementText(kinds[k], k))],
     loose |-> ""]
DocKinds(m) == [1..m -> SegmentTypes]

\* urls are interchangeable: a call takes a url on record or the first one not
UrlChoices ==
    LET used == {k \in 1..Len(Urls) : \E row \in issues : row.url = Urls[k]}
        fresh == {k \in 1..Len(Urls) : k \notin used /\ \A j \in 1..(k - 1) : j \in used}
    IN {Urls[k] : k \in used \cup fresh}

Running(r) == {k \in 1..Len(run[r].gstate) : run[r].gstate[k] = "running"}

\* a call that returned or raised earlier: its other locals are gone
Retired(old) ==
    [BlankRun EXCEPT !.pc = "retired", !.url = old.url,
                     !.arg_issue_id = old.arg_issue_id,
                     !.issue_id = old.issue_id, !.outcome = old.outcome]

Start(r, u, id, mg) ==
    /\ run[r].pc = "idle"
    /\ u \in UrlChoices
    /\ \A q \in Runs : q < r => run[q].pc # "idle"
    /\ \A q \in Runs : ~InFlight(q)
    /\ run' = [q \in Runs |->
                 IF q = r
                 THEN [BlankRun EXCEPT !.pc = "fetch", !.url = u,
                                       !.arg_issue_id = id, !.max_groups = mg]
                 ELSE IF Finished(q) THEN Retired(run[q])
                 ELSE run[q]]
    /\ UNCHANGED <<store, pure, config>>

\* _fetch_newsletter returned; _parse_newsletter ran
FetchOk(r, doc) ==
    /\ run[r].pc = "fetch"
    /\ run' = [run EXCEPT ![r].segments_data = ParseNewsletter(doc, config),
                          ![r].pc = "upsert"]
    /\ UNCHANGED <<store, pure, config>>

\* mutant: the Issue row is upserted before the document is fetched
FetchFail_UpsertsFirst(r) ==
    /\ run[r].pc = "fetch"
    /\ issues' = UpsertIssue(issues, run[r].url, run[r].arg_issue_id)
    /\ run' = [run EXCEPT ![r].pc = "raised", ![r].outcome = "fetch_error"]
    /\ UNCHANGED <<topic_groups, segments, group_seq, pure, config>>

\* _fetch_newsletter raised
FetchFail(r) ==
    /\ run[r].pc = "fetch"
    /\ run' = [run EXCEPT ![r].pc = "raised", ![r].outcome = "fetch_error"]
    /\ UNCHANGED <<store, pure, config>>

\* mutant: a supplied id is used even when the url has a row
ResolveIssueId_ForcesArg(rows, u, arg) ==
    IF arg # None THEN arg
    ELSE CHOOSE x \in SelectIssueIds(UpsertIssue(rows, u, None), u) : TRUE

\* upsert issue and resolve the canonical id
ResolveIssueId(rows, u, arg) ==
    IF arg # None
    THEN IF SelectIssueIds(rows, u) # {}
         THEN CHOOSE x \in SelectIssueIds(rows, u) : TRUE
         ELSE arg
    ELSE CHOOSE x \in SelectIssueIds(UpsertIssue(rows, u, None), u) : TRUE

UpsertedIssues(rows, u, arg) ==
    IF arg # None /\ SelectIssueIds(rows, u) = {}
    THEN UpsertIssue(rows, u, arg)
    ELSE UpsertIssue(rows, u, None)

Upsert(r) ==
    /\ run[r].pc = "upsert"
    /\ issues' = UpsertedIssues(issues, run[r].url, run[r].arg_issue_id)
    /\ run' = [run EXCEPT ![r].issue_id = ResolveIssueId(issues, run[r].url,
                                                         run[r].arg_issue_id),
                          ![r].pc = "delete_segments"]
    /\ UNCHANGED <<topic_groups, segments, group_seq, pure, config>>

DeleteSegments(r) ==
    /\ run[r].pc = "delete_segments"
    /\ segments' = RowsAfterDelete(segments, run[r].issue_id)
    /\ run' = [run EXCEPT ![r].pc = "delete_groups"]
    /\ UNCHANGED <<issues, topic_groups, group_seq, pure, config>>

\* delete the issue's groups (the foreign key of a segment that still points
\* at one is set to null), then group the parsed segments and apply max_groups
DeleteGroups(r) ==
    LET gone == {g.id : g \in {x \in topic_groups : x.issue_id = run[r].issue_id}}
        gl == Truncate(GroupSegments(run[r].segments_data), run[r].max_groups)
    IN /\ run[r].pc = "delete_groups"
       /\ topic_groups' = RowsAfterDelete(topic_groups, run[r].issue_id)
       /\ segments' = {IF s.topic_group_id \in gone
                       THEN [s EXCEPT !.topic_group_id = None] ELSE s : s \in segments}
       /\ run' = [run EXCEPT ![r].groups = gl,
                             ![r].gstate = [k \in 1..Len(gl) |-> "pending"],
                             ![r].reply = [k \in 1..Len(gl) |-> Unasked],
                             ![r].pc = "process"]
       /\ UNCHANGED <<issues, group_seq, pure, config>>

\* mutant: the semaphore lets one more unit in than its value
Acquirable_OneMore(held) == held <= MAX_CONCURRENT_SEGMENTS

\* asyncio.Semaphore(self.max_concurrent_segments): a unit acquires it while
\* fewer than its value hold it
Acquirable(held) == held < MAX_CONCURRENT_SEGMENTS

\* mutant: a group that raised keeps its permit
PermitsHeld_KeptOnFailure(r) ==
    Cardinality({k \in 1..Len(run[r].gstate) : run[r].gstate[k] \in {"running", "failed"}})

\* mutant: no group gives its permit back
PermitsHeld_NeverReleased(r) ==
    Cardinality({k \in 1..Len(run[r].gstate) : run[r].gstate[k] # "pending"})

\* the permits of the semaphore in use: "async with" gives the permit back
\* when process_group returns and when it raises
PermitsHeld(r) == Cardinality(Running(r))

\* process_group(k) passes "async with semaphore"
Admit(r, k) ==
    /\ run[r].pc = "process"
    /\ k \in 1..Len(run[r].gstate)
    /\ run[r].gstate[k] = "pending"
    /\ Acquirable(PermitsHeld(r))
    /\ run' = [run EXCEPT ![r].gstate[k] = "running"]
    /\ UNCHANGED <<store, pure, config>>

\* process_group(k) got its replies from the text-transform collaborator and
\* ended: as_completed yields the group it returned, or the exception
Complete(r, k, collaborators) ==
    /\ run[r].pc = "process"
    /\ k \in Running(r)
    /\ \E reply \in GroupReplies(run[r].groups[k],
                                  config.ENABLE_CHINESE_PROCESSING, collaborators) :
           IF ProcessGroupRaises(run[r].groups[k],
                                 config.ENABLE_CHINESE_PROCESSING, reply)
           THEN run' = [run EXCEPT ![r].gstate[k] = "failed",
                                   ![r].failed_groups = @ + 1,
                                   ![r].reply[k] = Answered(run[r].groups[k], reply)]
           ELSE run' = [run EXCEPT
                           ![r].gstate[k] = "processed",
                           ![r].reply[k] = Answered(run[r].groups[k], reply),
                           ![r].completed = Append(@, k),
                           ![r].processed_groups =
                               Append(@, ProcessGroup(run[r].groups[k],
                                                      config.ENABLE_CHINESE_PROCESSING,
                                                      reply))]
    /\ UNCHANGED <<store, pure, config>>

\* mutant: the segments of a group whose primary-language synthesis raised
\* go on to be stored, without the audio they did not get
Fail_KeepsSegments(r, k) ==
    LET g == ProcessGroup(run[r].groups[k], config.ENABLE_CHINESE_PROCESSING, Down)
        silent == [i \in 1..Len(g.segments) |->
                      [g.segments[i] EXCEPT !.audio_url = None,
                                            !.audio_duration_ms = None]]
    IN /\ run[r].pc = "process"
       /\ k \in Running(r)
       /\ run' = [run EXCEPT ![r].gstate[k] = "failed",
                             ![r].failed_groups = @ + 1,
                             ![r].processed_groups =
                                 Append(@, [g EXCEPT !.segments = silent])]
       /\ UNCHANGED <<store, pure, config>>

\* process_group(k) raised (primary-language audio generation failed)
Fail(r, k) ==
    /\ run[r].pc = "process"
    /\ k \in Running(r)
    /\ run' = [run EXCEPT ![r].gstate[k] = "failed",
                          ![r].failed_groups = @ + 1]
    /\ UNCHANGED <<store, pure, config>>

\* the as_completed loop is over: threshold check, then sort
Decide(r) ==
    /\ run[r].pc = "process"
    /\ \A k \in 1..Len(run[r].gstate) : run[r].gstate[k] \in {"processed", "failed"}
    /\ IF TooManyFailed(run[r].failed_groups, Len(run[r].groups))
       THEN run' = [run EXCEPT ![r].pc = "raised", ![r].outcome = "too_many_failed"]
       ELSE run' = [run EXCEPT ![r].processed_groups = SortByOrderIndex(@),
                               ![r].pc = IF run[r].processed_groups = <<>>
                                         THEN "mark" ELSE "insert_groups"]
    /\ UNCHANGED <<store, pure, config>>

\* mutant: the segment insert is skipped
AfterGroupInsert_SkipsSegments(segs) == "mark"

\* "if all_segments:" the batch insert loop runs, otherwise the call goes on
\* to mark the issue
AfterGroupInsert(segs) == IF segs = <<>> THEN "mark" ELSE "insert_segments"

InsertGroups(r, any_order) ==
    LET rows == GroupRows(run[r].processed_groups, run[r].issue_id, group_seq, r)
    IN /\ run[r].pc = "insert_groups"
       /\ topic_groups' = topic_groups \cup Range(rows)
       /\ group_seq' = group_seq + Len(run[r].processed_groups)
       /\ \E inserted \in InsertResponses(rows, any_order) :
              LET segs == PrepareSegments(run[r].processed_groups, inserted,
                                          run[r].issue_id, r)
              IN run' = [run EXCEPT ![r].inserted_groups = inserted,
                                    ![r].all_segments = segs,
                                    ![r].pc = AfterGroupInsert(segs)]
       /\ UNCHANGED <<issues, segments, pure, config>>

\* mutant: the slice of a batch runs one row past the step of the loop
InsertSegments_LongSlice(r) ==
    LET n == Len(run[r].all_segments)
        last == Min(run[r].i + SEGMENT_BATCH_SIZE + 1, n)
        batch == SubSeq(run[r].all_segments, run[r].i + 1, last)
    IN /\ run[r].pc = "insert_segments"
       /\ segments' = segments \cup {batch[k] : k \in 1..Len(batch)}
       /\ run' = [run EXCEPT ![r].i = @ + SEGMENT_BATCH_SIZE,
                             ![r].pc = IF run[r].i + SEGMENT_BATCH_SIZE < n
                                       THEN "insert_segments" ELSE "mark"]
       /\ UNCHANGED <<issues, topic_groups, group_seq, pure, config>>

\* one iteration of the batch insert loop
InsertSegments(r) ==
    LET n == Len(run[r].all_segments)
        last == Min(run[r].i + SEGMENT_BATCH_SIZE, n)
        batch == SubSeq(run[r].all_segments, run[r].i + 1, last)
    IN /\ run[r].pc = "insert_segments"
       /\ segments' = segments \cup {batch[k] : k \in 1..Len(batch)}
       /\ run' = [run EXCEPT ![r].i = @ + SEGMENT_BATCH_SIZE,
                             ![r].pc = IF run[r].i + SEGMENT_BATCH_SIZE < n
                                       THEN "insert_segments" ELSE "mark"]
       /\ UNCHANGED <<issues, topic_groups, group_seq, pure, config>>

\* mark issue as processed
Mark(r) ==
    /\ run[r].pc = "mark"
    /\ issues' = {IF row.id = run[r].issue_id
                  THEN [row EXCEPT !.processed_at = r] ELSE row : row \in issues}
    /\ run' = [run EXCEPT ![r].pc = "done", ![r].outcome = "returned"]
    /\ UNCHANGED <<topic_groups, segments, group_seq, pure, config>>

\* a call of the store raises
StoreError(r) ==
    /\ run[r].pc \in {"upsert", "delete_segments", "delete_groups",
                      "insert_groups", "insert_segments", "mark"}
    /\ run' = [run EXCEPT ![r].pc = "raised", ![r].outcome = "store_error"]
    /\ UNCHANGED <<store, pure, config>>

ArgIds(r) == {None, <<"req", r>>}
MaxGroupsArgs == {None, <<1>>}

Init ==
    /\ issues = {}
    /\ topic_groups = {}
    /\ segments = {}
    /\ group_seq = 0
    /\ run = [r \in Runs |-> BlankRun]
    /\ in_group = NoGroup
    /\ in_reply = Down
    /\ out_group = NoGroup
    /\ in_segments = <<>>
    /\ out_groups = <<>>
    /\ gpc = "off"
    /\ in_document = NoDocument
    /\ config = DefaultConfig
    /\ voice = NoVoice
    /\ wire = NoWire

\* the steps of call r after its start, on documents of up to n elements;
\* collaborators: what the collaborators of process_group do (GroupReplies);
\* any_order: the group insert hands back any of the rows in
\* any order, otherwise all of them in the order of the payload
Step(r, n, collaborators, any_order) ==
    \/ \E m \in 0..n : \E kinds \in DocKinds(m) : FetchOk(r, Elements(kinds))
    \/ FetchFail(r)
    \/ Upsert(r)
    \/ DeleteSegments(r)
    \/ DeleteGroups(r)
    \/ \E k \in 1..n : Admit(r, k)
    \/ \E k \in 1..n : Complete(r, k, collaborators)
    \/ \E k \in 1..n : Fail(r, k)
    \/ Decide(r)
    \/ InsertGroups(r, any_order)
    \/ InsertSegments(r)
    \/ Mark(r)
    \/ StoreError(r)

StartAny(r) ==
    \E u \in UrlChoices, mg \in MaxGroupsArgs : \E id \in ArgIds(r) : Start(r, u, id, mg)

\* a call without an issue id and without a limit on the groups
StartPlain(r) == \E u \in UrlChoices : Start(r, u, None, None)

\* one call of process_newsletter on an empty store
Next ==
    \/ StartAny(1)
    \/ Step(1, MaxSegs, "down", FALSE)

Spec == Init /\ [][Next]_vars

\* one call whose awaited collaborator calls all return or raise: the event
\* loop resumes a call that can take a step
NextTerminates ==
    \/ StartAny(1)
    \/ Step(1, MaxLiveSegs, "down", FALSE)

SpecTerminates ==
    Init /\ [][NextTerminates]_vars /\ WF_vars(Step(1, MaxLiveSegs, "down", FALSE))

\* a call and a later call, on the same url or another
NextRerun ==
    \/ \E r \in Runs : StartAny(r)
    \/ \E r \in Runs : Step(r, MaxRerunSegs, "down", FALSE)

SpecRerun == Init /\ [][NextRerun]_vars

\* one call under either setting of enableChineseProcessing, the
\* text-transform collaborator giving every reply
InitProcess ==
    /\ issues = {}
    /\ topic_groups = {}
    /\ segments = {}
    /\ group_seq = 0
    /\ run = [r \in Runs |-> BlankRun]
    /\ in_group = NoGroup
    /\ in_reply = Down
    /\ out_group = NoGroup
    /\ in_segments = <<>>
    /\ out_groups = <<>>
    /\ gpc = "off"
    /\ in_document = NoDocument
    /\ \E b \in BOOLEAN :
           config = [DefaultConfig EXCEPT !.ENABLE_CHINESE_PROCESSING = b]
    /\ voice = NoVoice
    /\ wire = NoWire

NextProcess ==
    \/ StartPlain(1)
    \/ Step(1, MaxProcSegs, "text", FALSE)

SpecProcess == InitProcess /\ [][NextProcess]_vars

\* one call under either setting of enableChineseProcessing, any of the
\* secondary-language syntheses raising
NextAudio ==
    \/ StartPlain(1)
    \/ Step(1, MaxAudioSegs, "audio", FALSE)

SpecAudio == InitProcess /\ [][NextAudio]_vars

\* one call whose group insert is answered with any rows in any order
NextStore ==
    \/ StartAny(1)
    \/ Step(1, MaxStoreSegs, "down", TRUE)

SpecStore == Init /\ [][NextStore]_vars

\* ------------------------------------------------------------- backfills
\* the latest processed issue: not_.is_("processed_at", "null"), ordered by
\* processed_at descending, limit 1
LatestProcessed ==
    LET done == {row \in issues : row.processed_at # 0}
    IN IF done = {} THEN None
       ELSE (CHOOSE row \in done : \A x \in done : x.processed_at <= row.processed_at).id

\* "group_order": the order_index of the group row of a segment, 0 when the
\* segment has no group or the group row is not found
GroupOrderOf(seg) ==
    LET rows == {g \in topic_groups : g.id = seg.topic_group_id}
    IN IF seg.topic_group_id = None \/ rows = {} THEN 0
       ELSE (CHOOSE g \in rows : TRUE).order_index

\* the first n of the segment rows, by order_index (all of them without n)
FirstByOrder(rows, n_segments) ==
    IF n_segments = None THEN rows
    ELSE {s \in rows : Cardinality({x \in rows : x.order_index < s.order_index})
                           < n_segments[1]}

\* POST /backfill-chinese: the segments of the latest processed issue without
\* translation get one where the collaborator gives one (translated: their
\* order_index) and, unless the synthesis raises (raises), the audio uploaded
\* under the group's order_index and the segment's order_index; the groups
\* without translated label get one (labels)
BackfillChinese(n_segments, translated, raises, labels) ==
    LET issue_id == LatestProcessed
        wanting == {s \in segments : s.issue_id = issue_id /\ s.content_raw_zh = NoText}
        chosen == FirstByOrder(wanting, n_segments)
        done == {s \in chosen : s.order_index \in translated \ raises}
    IN /\ \A r \in Runs : ~InFlight(r)
       /\ issue_id # None
       /\ wanting # {}
       /\ raises \subseteq translated
       /\ translated \subseteq {s.order_index : s \in chosen}
       /\ segments' =
              {IF s \in done
               THEN [s EXCEPT !.content_raw_zh = "zh", !.content_clean_zh = "spoken",
                              !.audio_url_zh = AudioUrl(GroupOrderOf(s), s.order_index,
                                                        "zh"),
                              !.audio_duration_ms_zh = AudioDuration]
               ELSE s : s \in segments}
       /\ topic_groups' =
              {IF g.issue_id = issue_id /\ g.label_zh = NoText /\ labels
               THEN [g EXCEPT !.label_zh = "zh"] ELSE g : g \in topic_groups}
       /\ UNCHANGED <<issues, group_seq, run, pure, config>>

\* rpc increment_order_index(p_issue_id, p_min_order): the group rows of the
\* issue from p_min_order on move one place up
IncrementOrderIndex(rows, issue_id, min_order) ==
    {IF g.issue_id = issue_id /\ g.order_index >= min_order
     THEN [g EXCEPT !.order_index = @ + 1] ELSE g : g \in rows}

\* the loop of /backfill-section-headers over the section headers of the
\* re-parsed document: st = [rows, seq]; a header whose label has no row is
\* inserted before the row of the topic that follows it in the document (at
\* the end when there is none), its audio uploaded under that order_index
\* and segment 0
RECURSIVE BackfillHeaders(_, _, _, _, _, _)
BackfillHeaders(section_headers, st, groups, issue_id, end_order, zh) ==
    IF section_headers = <<>> THEN st
    ELSE LET sh == Head(section_headers)
             existing == {g \in st.rows : g.issue_id = issue_id}
             by_label(l) ==
                 LET same == {g \in existing : g.label = l}
                 IN CHOOSE g \in same : \A x \in same : x.order_index <= g.order_index
             after == {k \in 1..Len(groups) :
                          /\ groups[k].order_index > sh.order_index
                          /\ ~groups[k].is_section_header}
             next_topic == groups[CHOOSE k \in after : \A x \in after : k <= x]
             insert_before_order ==
                 IF after # {} /\ \E g \in existing : g.label = next_topic.label
                 THEN by_label(next_topic.label).order_index
                 ELSE end_order
             row == [id |-> <<"g", st.seq + 1>>, issue_id |-> issue_id,
                     label |-> sh.label, order_index |-> insert_before_order,
                     is_section_header |-> TRUE,
                     label_zh |-> IF zh THEN "zh" ELSE NoText,
                     audio_url |-> AudioUrl(insert_before_order, 0, "en"),
                     audio_duration_ms |-> AudioDuration,
                     audio_url_zh |-> IF zh THEN AudioUrl(insert_before_order, 0, "zh")
                                     ELSE None,
                     audio_duration_ms_zh |-> IF zh THEN AudioDuration ELSE None,
                     run |-> 0]
             next == IF \E g \in existing : g.label = sh.label THEN st
                     ELSE [rows |-> IncrementOrderIndex(st.rows, issue_id,
                                                        insert_before_order) \cup {row},
                           seq |-> st.seq + 1]
         IN BackfillHeaders(Tail(section_headers), next, groups, issue_id, end_order, zh)

\* POST /backfill-section-headers without issue_id, the document fetched
\* again being the one run r parsed; zh: the label is translated and its
\* secondary-language audio made
BackfillSectionHeaders(r, zh) ==
    LET issue_id == LatestProcessed
        groups == GroupSegments(run[r].segments_data)
        existing_groups == {g \in topic_groups : g.issue_id = issue_id}
        end_order == 1 + CHOOSE m \in {g.order_index : g \in existing_groups} :
                             \A g \in existing_groups : g.order_index <= m
        section_headers == SelectSeq(groups, LAMBDA g : g.is_section_header)
        st == BackfillHeaders(section_headers,
                              [rows |-> topic_groups, seq |-> group_seq],
                              groups, issue_id, end_order, zh)
    IN /\ \A q \in Runs : ~InFlight(q)
       /\ issue_id # None
       /\ run[r].issue_id = issue_id
       /\ run[r].outcome = "returned"
       /\ section_headers # <<>>
       /\ existing_groups # {}
       /\ topic_groups' = st.rows
       /\ group_seq' = st.seq
       /\ UNCHANGED <<issues, segments, run, pure, config>>

\* a call of process_newsletter, then the backfills on the issue it stored
NextBackfill ==
    \/ StartPlain(1)
    \/ Step(1, MaxBackfillSegs, "audio", FALSE)
    \/ \E n_segments \in {None, <<1>>}, labels \in BOOLEAN :
           \E translated \in SUBSET (0..(MaxBackfillSegs - 1)) :
               \E raises \in SUBSET translated :
                   BackfillChinese(n_segments, translated, raises, labels)
    \/ \E zh \in BOOLEAN : BackfillSectionHeaders(1, zh)

SpecBackfill == InitProcess /\ [][NextBackfill]_vars

\* ---------------------------------------------------------------- web layer
\* check_issue_exists(url): a row with the url is on record; when the select
\* raises (~readable) the answer is False
CheckIssueExists(rows, u, readable) == readable /\ SelectIssueIds(rows, u) # {}

\* the task of a request starts: process_newsletter(url, issue_id) with a
\* fresh uuid4
Launch(r, u) ==
    run' = [q \in Runs |->
              IF q = r
              THEN [BlankRun EXCEPT !.pc = "fetch", !.url = u,
                                    !.arg_issue_id = <<"req", r>>]
              ELSE IF Finished(q) THEN Retired(run[q])
              ELSE run[q]]

\* the request ends without a call of process_newsletter
Decline(r, u, status) ==
    run' = [run EXCEPT ![r] = [BlankRun EXCEPT !.pc = "skipped", !.url = u,
                                              !.outcome = status]]

\* POST /process: the run is added to the background tasks, whatever else is
\* in flight
PostProcess(r, u) ==
    /\ run[r].pc = "idle"
    /\ \A q \in Runs : q < r => run[q].pc # "idle"
    /\ Launch(r, u)
    /\ UNCHANGED <<store, pure, config>>

\* POST /process-latest: latest is the link of the first entry of the RSS
\* feed, NoText when there is none; the run is awaited inside the handler,
\* whatever else is in flight
PostProcessLatest(r, latest, force, readable) ==
    /\ run[r].pc = "idle"
    /\ \A q \in Runs : q < r => run[q].pc # "idle"
    /\ IF latest = NoText THEN Decline(r, "", "no_new_issue")
       ELSE IF ~force /\ CheckIssueExists(issues, latest, readable)
            THEN Decline(r, latest, "skipped")
            ELSE Launch(r, latest)
    /\ UNCHANGED <<store, pure, config>>

\* "issue_id": issue_id in the answer of /process and /process-latest: the
\* uuid4 the handler generated
ReportedIssueId(r) == run[r].arg_issue_id

\* requests arrive at any time; the runs they start take their steps in any
\* order
NextWeb ==
    \/ \E r \in Runs : \E u \in UrlChoices : PostProcess(r, u)
    \/ \E r \in Runs : \E latest \in UrlChoices \cup {NoText} :
           \E force \in BOOLEAN, readable \in BOOLEAN :
               PostProcessLatest(r, latest, force, readable)
    \/ \E r \in Runs : Step(r, MaxWebSegs, "down", FALSE)

SpecWeb == Init /\ [][NextWeb]_vars

\* _parse_newsletter on its own, then _group_segments on its result: the
\* documents of up to MaxDocLen elements of a pool, with or without text
\* outside the elements, under every setting of the consolidation rules
Stem == "hello worl"
LongText == "The quick brown fox jumps over the lazy dog and runs on and on "
                \o "until the text is longer than a hundred characters"
ElementPool ==
    {Element("h1", "AI Reddit Recap"), Element("h1", "AI Twitter Recap"),
     Element("h1", "Discord: High level Discord summaries"),
     Element("h2", "Topic"),
     [name |-> "p", text |-> "Bold topic", cls |-> "", strong |-> TRUE,
      strong_text |-> "Bold topic"],
     [name |-> "li", text |-> "hello world", cls |-> "share-button",
      strong |-> FALSE, strong_text |-> ""]}
        \cup {Element("p", Stem \o suffix) : suffix \in {"", "d!", "D", "ds"}}
LooseTexts == {"", "loose text", LongText}
Configs ==
    {[ENABLE_CHINESE_PROCESSING |-> TRUE, DISCORD_CONSOLIDATION_MODE |-> mode,
      REDDIT_LIGHT_DEDUP |-> dedup] : mode \in {"off", "recap_only"}, dedup \in BOOLEAN}

InitParse ==
    /\ issues = {}
    /\ topic_groups = {}
    /\ segments = {}
    /\ group_seq = 0
    /\ run = [r \in Runs |-> BlankRun]
    /\ in_group = NoGroup
    /\ in_reply = Down
    /\ out_group = NoGroup
    /\ in_segments = <<>>
    /\ out_groups = <<>>
    /\ gpc = "parse"
    /\ \E m \in 0..MaxDocLen : \E f \in [1..m -> ElementPool] :
           \E loose \in LooseTexts : in_document = [elements |-> f, loose |-> loose]
    /\ config \in Configs
    /\ voice = NoVoice
    /\ wire = NoWire

CallParseNewsletter ==
    /\ gpc = "parse"
    /\ in_segments' = ParseNewsletter(in_document, config)
    /\ gpc' = "call"
    /\ UNCHANGED <<store, run, out_groups, in_document, in_group, in_reply, out_group,
                   config, voice, wire>>

\* _group_segments on its own, for every segment list up to MaxLen
SegmentList(f) ==
    [k \in 1..Len(f) |-> [segment_type |-> f[k][1], content_raw |-> f[k][2],
                          order_index |-> k - 1]]

InitGroup ==
    /\ issues = {}
    /\ topic_groups = {}
    /\ segments = {}
    /\ group_seq = 0
    /\ run = [r \in Runs |-> BlankRun]
    /\ in_group = NoGroup
    /\ in_reply = Down
    /\ out_group = NoGroup
    /\ \E m \in 0..MaxLen : \E f \in [1..m -> SegmentTypes \X Texts] :
           in_segments = SegmentList(f)
    /\ out_groups = <<>>
    /\ gpc = "call"
    /\ in_document = NoDocument
    /\ config = DefaultConfig
    /\ voice = NoVoice
    /\ wire = NoWire

CallGroupSegments ==
    /\ gpc = "call"
    /\ out_groups' = GroupSegments(in_segments)
    /\ gpc' = "returned"
    /\ UNCHANGED <<store, run, in_segments, in_document, in_group, in_reply, out_group,
                   config, voice, wire>>

NextGroup == CallGroupSegments

SpecGroup == InitGroup /\ [][NextGroup]_vars

\* process_group on its own, bilingual: a group _group_segments made of up to
\* MaxCallLen segments; the translate call gives, or fails to give, each
\* position its own translation; the secondary clean call raises, or gives
\* each text sent its own cleaned form or null, or gives a list one short
ZhOf(k) == "zh" \o TextAt(k)
SpokenOf(text) == "spoken " \o text
TranslationsAt(n, S) ==
    [kind |-> "list", data |-> [k \in 1..n |-> IF k \in S THEN ZhOf(k) ELSE NoText]]
CleanedAt(sent, Q) ==
    [kind |-> "list",
     data |-> [j \in 1..Len(sent) |-> IF j \in Q THEN SpokenOf(sent[j]) ELSE NoText]]
OneShort(sent) ==
    [kind |-> "list", data |-> [j \in 1..(Len(sent) - 1) |-> SpokenOf(sent[j + 1])]]
SentZh(group, t) == TextsToCleanZh(TranslateTextsBatch(CallTexts(group), t))
PositionalReplies(group) ==
    LET n == Len(CallTexts(group))
    IN UNION {{[clean |-> Spoken(n), translate |-> t, clean_zh |-> z,
                zh_audio_raises |-> {}] :
                  z \in {Failure("exception")}
                           \cup {CleanedAt(SentZh(group, t), Q) :
                                    Q \in SUBSET (1..Len(SentZh(group, t)))}
                           \cup (IF SentZh(group, t) = <<>> THEN {}
                                 ELSE {OneShort(SentZh(group, t))})} :
              t \in {Failure("exception")}
                       \cup {TranslationsAt(n, S) : S \in SUBSET (1..n)}}

InitProcessGroup ==
    /\ issues = {}
    /\ topic_groups = {}
    /\ segments = {}
    /\ group_seq = 0
    /\ run = [r \in Runs |-> BlankRun]
    /\ in_segments = <<>>
    /\ out_groups = <<>>
    /\ in_document = NoDocument
    /\ \E m \in 1..MaxCallLen : \E f \in [1..m -> SegmentTypes \X Texts] :
           \E g \in Range(GroupSegments(SegmentList(f))) :
               /\ in_group = g
               /\ in_reply \in PositionalReplies(g)
    /\ out_group = NoGroup
    /\ gpc = "process_group"
    /\ config = DefaultConfig
    /\ voice = NoVoice
    /\ wire = NoWire

CallProcessGroup ==
    /\ gpc = "process_group"
    /\ IF ProcessGroupRaises(in_group, config.ENABLE_CHINESE_PROCESSING, in_reply)
       THEN out_group' = NoGroup /\ gpc' = "raised"
       ELSE /\ out_group' = ProcessGroup(in_group, config.ENABLE_CHINESE_PROCESSING,
                                         in_reply)
            /\ gpc' = "returned"
    /\ UNCHANGED <<store, run, in_segments, out_groups, in_document, in_group, in_reply,
                   config, voice, wire>>

NextProcessGroup == CallProcessGroup

SpecProcessGroup == InitProcessGroup /\ [][NextProcessGroup]_vars

\* _parse_newsletter on documents of up to MaxDiscordLen elements taken from
\* the headings of the Discord sections (high level, detailed, recap), the
\* heading of another section, a heading without text, a topic heading and a
\* paragraph, with the Discord consolidation off and set to recap_only
DiscordPool ==
    {Element("h1", "Discord: High level Discord summaries"),
     Element("h1", "DISCORD: Detailed by-Channel summaries"),
     Element("h1", "AI Discord Recap"), Element("h1", "AI Twitter Recap"),
     Element("h1", ""), Element("h2", "Topic"), Element("p", Stem \o "ds")}
DiscordConfigs ==
    {[ENABLE_CHINESE_PROCESSING |-> TRUE, DISCORD_CONSOLIDATION_MODE |-> mode,
      REDDIT_LIGHT_DEDUP |-> FALSE] : mode \in {"off", "recap_only"}}

InitDiscord ==
    /\ issues = {}
    /\ topic_groups = {}
    /\ segments = {}
    /\ group_seq = 0
    /\ run = [r \in Runs |-> BlankRun]
    /\ in_group = NoGroup
    /\ in_reply = Down
    /\ out_group = NoGroup
    /\ in_segments = <<>>
    /\ out_groups = <<>>
    /\ gpc = "parse"
    /\ \E m \in 0..MaxDiscordLen : \E f \in [1..m -> DiscordPool] :
           \E loose \in {"", "loose text"} :
               in_document = [elements |-> f, loose |-> loose]
    /\ config \in DiscordConfigs
    /\ voice = NoVoice
    /\ wire = NoWire

\* _parse_newsletter, then _group_segments on the segments it returned
NextParse ==
    \/ CallParseNewsletter
    \/ CallGroupSegments

SpecParse == InitParse /\ [][NextParse]_vars

SpecDiscord == InitDiscord /\ [][NextParse]_vars

\* ------------------------------------------------------------ properties
IssueRowsFor(u) == {row \in issues : row.url = u}
GroupRowsOf(id) == {g \in topic_groups : g.issue_id = id}
SegmentRowsOf(id) == {s \in segments : s.issue_id = id}
Failed(r) == {k \in 1..Len(run[r].gstate) : run[r].gstate[k] = "failed"}
Processed(r) == {k \in 1..Len(run[r].gstate) : run[r].gstate[k] = "processed"}
\* r is a call on a url for which an earlier call q left an Issue row
Reprocesses(r, q) ==
    /\ q < r
    /\ run[q].issue_id # None
    /\ run[r].url = run[q].url
    /\ run[r].pc # "idle"

\* C1: after a call and a second call on the same url, once the second has
\* returned there is exactly one Issue row for the url, with the identifier
\* the first call resolved, and the groups and segments stored for it are
\* exactly those of the second call's processed groups (none of the first
\* call's rows, nothing appended).
C1_SecondRunReplaces ==
    \A q \in Runs, r \in Runs :
        (Reprocesses(r, q) /\ run[r].pc = "done") =>
            LET id == run[q].issue_id
                pg == run[r].processed_groups
            IN /\ Cardinality(IssueRowsFor(run[r].url)) = 1
               /\ \A row \in IssueRowsFor(run[r].url) : row.id = id
               /\ run[r].issue_id = id
               /\ \A g \in GroupRowsOf(id) : g.run = r
               /\ \A s \in SegmentRowsOf(id) : s.run = r
               /\ Cardinality(GroupRowsOf(id)) = Len(pg)
               /\ {<<g.order_index, g.label>> : g \in GroupRowsOf(id)}
                      = {<<pg[k].order_index, pg[k].label>> : k \in 1..Len(pg)}
               /\ {<<s.order_index, s.content_raw>> : s \in SegmentRowsOf(id)}
                      = UNION {{<<seg.order_index, seg.content_raw>> :
                                    seg \in Range(pg[k].segments)} : k \in 1..Len(pg)}

\* both calls returned on the same url and the second stored groups and segments
C1_Witness ==
    /\ Reprocesses(2, 1)
    /\ run[1].outcome = "returned"
    /\ run[2].pc = "done"
    /\ Cardinality(GroupRowsOf(run[2].issue_id)) = 2
    /\ SegmentRowsOf(run[2].issue_id) # {}

\* C2: a call given an issue id for a url that already has an Issue row uses
\* the row's identifier: it is what the call resolves and returns, it is the
\* issue_id of every group and segment row the call stores, and the row keeps
\* it; the supplied id is used only when the url had no row.
C2_ExistingIdWins ==
    \A r \in Runs :
        (run[r].arg_issue_id # None /\ run[r].issue_id # None) =>
            /\ \A q \in Runs : Reprocesses(r, q) =>
                   /\ run[r].issue_id = run[q].issue_id
                   /\ \A row \in IssueRowsFor(run[r].url) : row.id = run[q].issue_id
            /\ (run[r].issue_id = run[r].arg_issue_id =>
                   \A q \in Runs : ~Reprocesses(r, q))
            /\ \A g \in topic_groups : g.run = r => g.issue_id = run[r].issue_id
            /\ \A s \in segments : s.run = r => s.issue_id = run[r].issue_id
            /\ \E row \in issues : row.id = run[r].issue_id /\ row.url = run[r].url

\* the second call was given an id, the url had a row, and it stored rows
C2_Witness ==
    /\ Reprocesses(2, 1)
    /\ run[2].arg_issue_id # None
    /\ run[2].pc = "done"
    /\ run[2].issue_id # run[2].arg_issue_id
    /\ \E s \in segments : s.run = 2
    /\ \E g \in topic_groups : g.run = 2

\* rows a call has stored, and the completion timestamp it has written
GroupRowsBy(r) == {g \in topic_groups : g.run = r}
SegmentRowsBy(r) == {s \in segments : s.run = r}
Stamped(r) == \E row \in issues : row.processed_at = r
Decided(r) ==
    /\ run[r].pc \notin {"idle", "fetch", "upsert", "delete_segments", "delete_groups"}
    /\ \A k \in 1..Len(run[r].gstate) : run[r].gstate[k] \in {"processed", "failed"}

\* C3: when more than half of the submitted groups of a call have failed
\* (2f > n), the call goes nowhere but to the run-level failure: it stores no
\* topic_group row and no segment row and does not write the completion
\* timestamp.
C3_ThresholdAbort ==
    \A r \in Runs :
        2 * Cardinality(Failed(r)) > Len(run[r].groups) =>
            /\ run[r].pc \in {"process", "raised"}
            /\ run[r].pc = "raised" => run[r].outcome = "too_many_failed"
            /\ GroupRowsBy(r) = {}
            /\ SegmentRowsBy(r) = {}
            /\ ~Stamped(r)

\* four groups, three failed, one processed: the call has raised
C3_Witness ==
    /\ Len(run[1].groups) = 4
    /\ Cardinality(Failed(1)) = 3
    /\ Cardinality(Processed(1)) = 1
    /\ run[1].pc = "raised"

\* C4: when at most half of the submitted groups have failed (2f <= n), the
\* threshold does not raise; a call that returns has stored one row for each
\* of the n - f processed groups and none for a failed one, exactly the
\* segments of the processed groups, and has written the completion timestamp
\* of the Issue whose id it returns.
C4_ThresholdContinue ==
    \A r \in Runs :
        /\ (Decided(r) /\ 2 * Cardinality(Failed(r)) <= Len(run[r].groups))
               => run[r].outcome # "too_many_failed"
        /\ run[r].pc = "done" =>
               LET ok == Processed(r)
                   gs == run[r].groups
               IN /\ 2 * Cardinality(Failed(r)) <= Len(gs)
                  /\ Cardinality(GroupRowsBy(r)) = Len(gs) - Cardinality(Failed(r))
                  /\ {<<g.order_index, g.label>> : g \in GroupRowsBy(r)}
                         = {<<gs[k].order_index, gs[k].label>> : k \in ok}
                  /\ {<<s.order_index, s.content_raw>> : s \in SegmentRowsBy(r)}
                         = UNION {{<<seg.order_index, seg.content_raw>> :
                                       seg \in Range(gs[k].segments)} : k \in ok}
                  /\ \A s \in SegmentRowsBy(r) :
                         \E g \in GroupRowsBy(r) : g.id = s.topic_group_id
                  /\ \E row \in issues :
                         row.id = run[r].issue_id /\ row.processed_at = r
                  /\ run[r].outcome = "returned"

\* four groups, two failed: the call returned and stored the other two
C4_Witness ==
    /\ Len(run[1].groups) = 4
    /\ Cardinality(Failed(1)) = 2
    /\ run[1].pc = "done"
    /\ Cardinality(GroupRowsBy(1)) = 2
    /\ SegmentRowsBy(1) # {}

\* C5 (as claimed): once a call has returned, the order_index values of the
\* Issue's stored topic groups are exactly 0..n-1, n the number of stored groups.
C5_GroupIndicesContiguous ==
    \A r \in Runs :
        run[r].pc = "done" =>
            {g.order_index : g \in GroupRowsOf(run[r].issue_id)}
                = 0..(Cardinality(GroupRowsOf(run[r].issue_id)) - 1)

\* C6: once a call has returned, the segment rows of its Issue are the rows
\* it prepared, their order_index values are pairwise distinct across the
\* whole Issue, and each row carries the order_index and text the parser gave
\* the segment (the k-th emitted segment has order_index k - 1).
C6_SegmentIndicesDistinct ==
    \A r \in Runs :
        run[r].pc = "done" =>
            LET segs == run[r].all_segments
                rows == SegmentRowsOf(run[r].issue_id)
                parsed == run[r].segments_data
            IN /\ \A a \in 1..Len(segs), b \in 1..Len(segs) :
                      a # b => segs[a].order_index # segs[b].order_index
               /\ rows = Range(segs)
               /\ \A s \in rows, t \in rows : s # t => s.order_index # t.order_index
               /\ \A s \in rows :
                      /\ s.order_index + 1 \in 1..Len(parsed)
                      /\ parsed[s.order_index + 1].order_index = s.order_index
                      /\ parsed[s.order_index + 1].content_raw = s.content_raw
                      /\ parsed[s.order_index + 1].segment_type = "item"

\* a returned call that stored segments of two different groups
C6_Witness ==
    /\ run[1].pc = "done"
    /\ \E s \in SegmentRowsBy(1), t \in SegmentRowsBy(1) :
           s.topic_group_id # t.topic_group_id
    /\ Cardinality(SegmentRowsBy(1)) = 3

\* the group rows and the prepared segments of call r are in the store
AllInserted(r) ==
    /\ \A k \in 1..Len(run[r].processed_groups) :
           \E g \in GroupRowsBy(r) :
               g.order_index = run[r].processed_groups[k].order_index
    /\ \A k \in 1..Len(run[r].all_segments) : run[r].all_segments[k] \in segments
    /\ \A k \in 1..Len(run[r].processed_groups) :
           \A seg \in Range(run[r].processed_groups[k].segments) :
               \E s \in SegmentRowsBy(r) : s.order_index = seg.order_index

\* C7: the step of a call that writes the Issue's completion timestamp is
\* taken only after its group insert and all its segment batch inserts have
\* returned, and a call that raised has not written it.
C7_StampAfterInserts ==
    /\ [][\A r \in Runs :
             (Stamped(r)' /\ ~Stamped(r)) => (run[r].pc = "mark" /\ AllInserted(r))]_vars
    /\ [](\A r \in Runs : Stamped(r) => run[r].outcome = "returned")

\* a call wrote the timestamp after a group insert and two segment batches
C7_Witness ==
    /\ Stamped(1)
    /\ run[1].pc = "done"
    /\ Len(run[1].all_segments) > SEGMENT_BATCH_SIZE
    /\ Cardinality(GroupRowsBy(1)) = 2

\* --- _group_segments, described from the positions of the input list
IsHeader(seg) == seg.segment_type \in {"topic_header", "section_header"}
\* the items that follow position h up to the next header (h = 0: the items
\* before every header)
RunEnd(segs, h) ==
    LET stops == {k \in (h + 1)..Len(segs) : IsHeader(segs[k])}
    IN IF stops = {} THEN Len(segs)
       ELSE (CHOOSE k \in stops : \A j \in stops : k <= j) - 1
ItemsAfter(segs, h) == SubSeq(segs, h + 1, RunEnd(segs, h))
\* the positions whose group is returned: 0 stands for the placeholder
Openers(segs) ==
    {h \in 0..Len(segs) :
        IF h = 0 THEN segs # <<>> /\ ~IsHeader(segs[1])
        ELSE /\ IsHeader(segs[h])
             /\ (segs[h].segment_type = "section_header" \/ ItemsAfter(segs, h) # <<>>)}
\* the i-th smallest element of a set of naturals
Nth(S, i) == CHOOSE h \in S : Cardinality({j \in S : j < h}) = i - 1

ExampleC8 ==
    <<[segment_type |-> "topic_header", content_raw |-> "A", order_index |-> 0],
      [segment_type |-> "item", content_raw |-> "B", order_index |-> 1],
      [segment_type |-> "item", content_raw |-> "General", order_index |-> 2],
      [segment_type |-> "section_header", content_raw |-> "B", order_index |-> 3]>>

\* C8: in the list _group_segments returns, the groups opened by headers
\* appear in input order; each is labelled with its header's text, is flagged
\* is_section_header iff the header is a section_header, and holds, in input
\* order, exactly the items between its header and the next header.  On
\* [topic_header A, item x, item y, section_header B] the result is
\* (A, [x, y]) and (B, [], is_section_header), in that order.
C8_GroupingCorrect ==
    gpc = "returned" =>
        LET hs == Openers(in_segments) \ {0}
            off == IF 0 \in Openers(in_segments) THEN 1 ELSE 0
        IN /\ Len(out_groups) = Cardinality(hs) + off
           /\ \A i \in 1..Cardinality(hs) :
                  LET h == Nth(hs, i)
                      g == out_groups[i + off]
                  IN /\ g.label = in_segments[h].content_raw
                     /\ g.is_section_header
                            <=> (in_segments[h].segment_type = "section_header")
                     /\ g.segments = ItemsAfter(in_segments, h)
           /\ in_segments = ExampleC8 =>
                  out_groups =
                      <<[label |-> "A", segments |-> SubSeq(ExampleC8, 2, 3),
                         order_index |-> 0, is_section_header |-> FALSE],
                        [label |-> "B", segments |-> <<>>,
                         order_index |-> 1, is_section_header |-> TRUE]>>

\* the example list has been grouped
C8_Witness ==
    /\ gpc = "returned"
    /\ in_segments = ExampleC8
    /\ Len(out_groups) = 2

ExampleC9 ==
    <<[segment_type |-> "item", content_raw |-> "B", order_index |-> 0],
      [segment_type |-> "topic_header", content_raw |-> "A", order_index |-> 1],
      [segment_type |-> "item", content_raw |-> "B", order_index |-> 2]>>

NumHeaders(segs) == Cardinality({k \in 1..Len(segs) : IsHeader(segs[k])})

\* C9: when the list starts with items, the first returned group is the
\* placeholder: labelled "General", order_index 0, not a section header,
\* holding exactly the items before the first header.  At most one group is
\* returned beyond those opened by headers, and none when the list starts
\* with a header.  On [item x, topic_header A, item y] the result is
\* (General, [x]) then (A, [y]).
C9_OrphanItems ==
    gpc = "returned" =>
        /\ (in_segments # <<>> /\ ~IsHeader(in_segments[1])) =>
               /\ out_groups # <<>>
               /\ out_groups[1].label = "General"
               /\ out_groups[1].order_index = 0
               /\ ~out_groups[1].is_section_header
               /\ out_groups[1].segments = ItemsAfter(in_segments, 0)
               /\ Len(out_groups) <= NumHeaders(in_segments) + 1
        /\ (in_segments = <<>> \/ IsHeader(in_segments[1])) =>
               /\ Len(out_groups) <= NumHeaders(in_segments)
               /\ \A i \in 1..Len(out_groups) :
                      \E k \in 1..Len(in_segments) :
                          /\ IsHeader(in_segments[k])
                          /\ out_groups[i].label = in_segments[k].content_raw
        /\ in_segments = ExampleC9 =>
               out_groups =
                   <<[label |-> "General", segments |-> SubSeq(ExampleC9, 1, 1),
                      order_index |-> 0, is_section_header |-> FALSE],
                     [label |-> "A", segments |-> SubSeq(ExampleC9, 3, 3),
                      order_index |-> 1, is_section_header |-> FALSE]>>

\* the example list has been grouped
C9_Witness ==
    /\ gpc = "returned"
    /\ in_segments = ExampleC9
    /\ Len(out_groups) = 2
    /\ out_groups[1].label = "General"

\* the position in the document of the header a label was taken from
PosOf(label) ==
    IF label = "General" THEN 0
    ELSE CHOOSE k \in 1..8 : \E kind \in SegmentTypes : ElementText(kind, k) = label
Grouped(r) ==
    run[r].pc \in {"process", "insert_groups", "insert_segments", "mark", "done"}

Holders(seg) ==
    {p \in UNION {{<<g, k>> : k \in 1..Len(out_groups[g].segments)} :
                      g \in 1..Len(out_groups)} :
        out_groups[p[1]].segments[p[2]] = seg}
\* the nearest header before position k of the input, 0 when there is none
HeaderBefore(segs, k) ==
    LET hs == {h \in 1..(k - 1) : IsHeader(segs[h])}
    IN IF hs = {} THEN 0 ELSE CHOOSE h \in hs : \A j \in hs : j <= h

\* C11 (as claimed): after _group_segments every segment of the input list,
\* whatever its type, is in the segment collection of exactly one returned
\* group, and a segment with no header before it is in the placeholder group.
C11_EverySegmentOnce ==
    gpc = "returned" =>
        \A k \in 1..Len(in_segments) :
            /\ Cardinality(Holders(in_segments[k])) = 1
            /\ HeaderBefore(in_segments, k) = 0 =>
                   \A p \in Holders(in_segments[k]) :
                       p[1] = 1 /\ out_groups[1].label = "General"

\* C11 (amended): after _group_segments every item of the input list is in
\* the segment collection of exactly one returned group: the placeholder
\* (first group, labelled "General", not a section header) when no header
\* precedes it, otherwise the group labelled by the nearest header before it.
\* A header segment is in no collection (its text is the label of the group
\* it opens), and the collections hold nothing but items of the input.
C11_EveryItemOnce ==
    gpc = "returned" =>
        /\ \A k \in 1..Len(in_segments) :
               LET seg == in_segments[k]
                   h == HeaderBefore(in_segments, k)
               IN IF IsHeader(seg) THEN Holders(seg) = {}
                  ELSE /\ Cardinality(Holders(seg)) = 1
                       /\ \A p \in Holders(seg) :
                              LET g == out_groups[p[1]]
                              IN IF h = 0
                                 THEN /\ p[1] = 1
                                      /\ g.label = "General"
                                      /\ ~g.is_section_header
                                 ELSE /\ g.label = in_segments[h].content_raw
                                      /\ g.is_section_header
                                             <=> in_segments[h].segment_type
                                                     = "section_header"
                                      /\ p[1] = Cardinality(
                                             {j \in Openers(in_segments) : j <= h})
        /\ \A g \in 1..Len(out_groups) :
               \A k \in 1..Len(out_groups[g].segments) :
                   /\ out_groups[g].segments[k] \in Range(in_segments)
                   /\ out_groups[g].segments[k].segment_type = "item"

\* a list with an item before every header, a header, and an item after it
\* has been grouped
C11_Witness ==
    /\ gpc = "returned"
    /\ Len(in_segments) = 4
    /\ in_segments[1].segment_type = "item"
    /\ in_segments[2].segment_type = "topic_header"
    /\ in_segments[3].segment_type = "section_header"
    /\ in_segments[4].segment_type = "item"
    /\ Len(out_groups) = 2

\* --- process_group: the text fields of the processed and stored segments
\* the group process_group returned for the k-th submitted group
ProcessedGroupsOf(r, k) ==
    {pg \in Range(run[r].processed_groups) :
        pg.order_index = run[r].groups[k].order_index}
\* the rows stored for the segments of the k-th submitted group
RowsOfGroup(r, k) ==
    {s \in SegmentRowsBy(r) :
        \E i \in 1..Len(run[r].groups[k].segments) :
            s.order_index = run[r].groups[k].segments[i].order_index}
Submitted(r) == 1..Len(run[r].gstate)

\* C12 (as claimed): once a call has returned, every segment row it stored
\* whose content_raw is non-empty has a non-empty content_clean, whatever the
\* text-transform collaborator answered.
C12_CleanNeverEmpty ==
    \A r \in Runs :
        run[r].pc = "done" =>
            \A s \in SegmentRowsBy(r) :
                s.content_raw # "" => Truthy(s.content_clean)

\* C13: when the collaborator answers a group's clean call with a list of
\* another length than the input, or with JSON that is no list, the group is
\* processed (it does not fail), it keeps every segment, and each segment's
\* content_clean equals its content_raw; once the call has returned, each of
\* the group's segments is stored with content_clean = content_raw.
C13_WrongLengthFallsBack ==
    \A r \in Runs : \A k \in Submitted(r) :
        run[r].reply[k].clean \in {"wrong_length", "non_list"} =>
            LET g == run[r].groups[k]
            IN /\ run[r].gstate[k] = "processed"
               /\ Cardinality(ProcessedGroupsOf(r, k)) = 1
               /\ \A pg \in ProcessedGroupsOf(r, k) :
                      /\ Len(pg.segments) = Len(g.segments)
                      /\ \A i \in 1..Len(g.segments) :
                             /\ pg.segments[i].content_raw = g.segments[i].content_raw
                             /\ pg.segments[i].content_clean = g.segments[i].content_raw
               /\ run[r].pc = "done" =>
                      \A i \in 1..Len(g.segments) :
                          \E s \in RowsOfGroup(r, k) :
                              /\ s.order_index = g.segments[i].order_index
                              /\ s.content_raw = g.segments[i].content_raw
                              /\ s.content_clean = g.segments[i].content_raw

\* a returned call that stored two segments of a labelled group whose clean
\* call was answered with a list of the wrong length
C13_Witness ==
    /\ run[1].pc = "done"
    /\ \E k \in Submitted(1) :
           /\ run[1].reply[k].clean = "wrong_length"
           /\ Truthy(run[1].groups[k].label)
           /\ Cardinality(RowsOfGroup(1, k)) = 2

\* the position, in the lists of the batch calls, of the segment of group g
\* with order_index oi
PositionIn(g, oi) ==
    (CHOOSE i \in 1..Len(g.segments) : g.segments[i].order_index = oi)
        + (IF Truthy(g.label) THEN 1 ELSE 0)
\* the translated fields t of a segment at position pos of group k of call r
ZhFieldsOk(r, k, pos, t) ==
    IF config.ENABLE_CHINESE_PROCESSING
    THEN /\ t.content_clean_zh # NoText => t.content_raw_zh # NoText
         /\ t.content_raw_zh # NoText => pos \in run[r].reply[k].translated
    ELSE t.content_raw_zh = NoText /\ t.content_clean_zh = NoText

\* C14: for every segment a call processed, and every segment row it stored:
\* with enableChineseProcessing off, content_raw_zh and content_clean_zh are
\* null; with it on, content_clean_zh is non-null only if content_raw_zh is,
\* and content_raw_zh is non-null only if the translate call's answer had a
\* non-null entry at the segment's position.
C14_TranslatedFields ==
    \A r \in Runs : \A k \in Submitted(r) :
        /\ \A pg \in ProcessedGroupsOf(r, k) :
               \A i \in 1..Len(pg.segments) :
                   ZhFieldsOk(r, k, PositionIn(pg, pg.segments[i].order_index),
                              pg.segments[i])
        /\ \A s \in RowsOfGroup(r, k) :
               ZhFieldsOk(r, k, PositionIn(run[r].groups[k], s.order_index), s)

\* a returned call, enableChineseProcessing on, that stored a segment with a
\* translation and no cleaned translation, and one without a translation
C14_Witness ==
    /\ run[1].pc = "done"
    /\ config.ENABLE_CHINESE_PROCESSING
    /\ \E s \in SegmentRowsBy(1), t \in SegmentRowsBy(1) :
           /\ s.content_raw_zh # NoText
           /\ s.content_clean_zh = NoText
           /\ t.content_raw_zh = NoText
           /\ s.topic_group_id = t.topic_group_id

\* C15: at every point of a call, the number of process_group units that
\* have acquired the semaphore and not yet released it is at most
\* max_concurrent_segments, however many groups were submitted and in
\* whatever order the units complete or fail.
C15_SemaphoreBound ==
    \A r \in Runs : Cardinality(Running(r)) <= MAX_CONCURRENT_SEGMENTS

\* more groups than the semaphore's value: it is fully held while a unit
\* waits, after one unit has failed and left it
C15_Witness ==
    /\ Len(run[1].groups) > MAX_CONCURRENT_SEGMENTS
    /\ Cardinality(Running(1)) = MAX_CONCURRENT_SEGMENTS
    /\ \E k \in Submitted(1) : run[1].gstate[k] = "pending"
    /\ Failed(1) # {}

\* --- the group insert and the attachment of segments
\* the rows the store handed back for the k-th submitted group
ReturnedFor(r, k) ==
    {row \in Range(run[r].inserted_groups) :
        row.order_index = run[r].groups[k].order_index}
\* the group insert of call r has returned
GroupsInserted(r) ==
    run[r].pc \in {"insert_segments", "mark", "done"} /\ run[r].processed_groups # <<>>
\* the segments of the k-th submitted group as call r prepared them
PreparedOf(r, k) ==
    {s \in Range(run[r].all_segments) :
        \E i \in 1..Len(run[r].groups[k].segments) :
            s.order_index = run[r].groups[k].segments[i].order_index}

\* C16: in whatever order the store hands back the rows of the group insert,
\* every segment the call prepares and every segment row it stores carries
\* as topic_group_id the identifier of the written group row whose
\* order_index (and label) is that of the group owning the segment after
\* grouping, and of no other group.
C16_AttachedByOrderIndex ==
    \A r \in Runs : \A k \in Submitted(r) :
        \A s \in PreparedOf(r, k) \cup RowsOfGroup(r, k) :
            /\ \E row \in GroupRowsBy(r) :
                   /\ row.id = s.topic_group_id
                   /\ row.order_index = run[r].groups[k].order_index
                   /\ row.label = run[r].groups[k].label
            /\ \A row \in GroupRowsBy(r) :
                   row.order_index # run[r].groups[k].order_index
                       => row.id # s.topic_group_id

\* a returned call that stored segments of two groups whose rows the store
\* handed back in the reverse of the payload's order
C16_Witness ==
    /\ run[1].pc = "done"
    /\ Len(run[1].inserted_groups) = 2
    /\ run[1].inserted_groups[1].order_index > run[1].inserted_groups[2].order_index
    /\ \E s \in SegmentRowsBy(1), t \in SegmentRowsBy(1) :
           s.topic_group_id # t.topic_group_id

\* C17: when the store hands back no row for a processed group, the group
\* insert step goes on to the segment insert or to the completion update and
\* not to a failure of the call (the call raises at that point only when the
\* store call itself raises); the segments of such a group are neither
\* prepared nor stored, those of every processed group with a row are
\* prepared, and stored once the call has returned, with that row's
\* identifier; and the call that returned has written the timestamp.
C17_MissingRowSkipped ==
    /\ [][\A r \in Runs :
             (run[r].pc = "insert_groups" /\ run'[r].pc # "insert_groups")
                 => \/ run'[r].pc \in {"insert_segments", "mark"}
                    \/ run'[r].outcome = "store_error"]_vars
    /\ [](\A r \in Runs : GroupsInserted(r) =>
             /\ \A k \in Processed(r) :
                    IF ReturnedFor(r, k) = {}
                    THEN PreparedOf(r, k) = {} /\ RowsOfGroup(r, k) = {}
                    ELSE /\ Cardinality(PreparedOf(r, k)) = Len(run[r].groups[k].segments)
                         /\ \A s \in PreparedOf(r, k) :
                                \E row \in ReturnedFor(r, k) : s.topic_group_id = row.id
                         /\ run[r].pc = "done" => RowsOfGroup(r, k) = PreparedOf(r, k)
             /\ run[r].pc = "done" =>
                    /\ run[r].outcome = "returned"
                    /\ \E row \in issues :
                           row.id = run[r].issue_id /\ row.processed_at = r)

\* a returned call, timestamp written: the store handed back the row of one
\* of two processed groups, whose segment is stored, and not the other's
C17_Witness ==
    /\ run[1].pc = "done"
    /\ Stamped(1)
    /\ Cardinality(Processed(1)) = 2
    /\ \E k \in Processed(1), j \in Processed(1) :
           /\ ReturnedFor(1, k) = {}
           /\ run[1].groups[k].segments # <<>>
           /\ ReturnedFor(1, j) # {}
           /\ RowsOfGroup(1, j) # {}
    /\ Cardinality(GroupRowsBy(1)) = 2

\* --- _parse_newsletter, described from the positions of the document
\* the words of a text: its maximal runs of word characters, lower-cased
RECURSIVE WordsFrom(_, _)
WordsFrom(text, word) ==
    IF text = "" THEN (IF word = "" THEN <<>> ELSE <<word>>)
    ELSE LET c == CharAt(text, 1)
             rest == SubSeq(text, 2, Len(text))
         IN IF c \in WordChars THEN WordsFrom(rest, word \o LowerChar(c))
            ELSE (IF word = "" THEN <<>> ELSE <<word>>) \o WordsFrom(rest, "")
Words(text) == WordsFrom(text, "")
\* the root section in force at element k: the class of the last level-1
\* heading with text at or before k
RootAt(doc, k) ==
    LET hs == {h \in 1..k : doc.elements[h].name = "h1" /\ doc.elements[h].text # ""}
    IN IF hs = {} THEN "other"
       ELSE ClassifyRootSection(doc.elements[CHOOSE h \in hs : \A j \in hs : j <= h].text)
\* element k is a content element that the skip rules let through and that is
\* not a bold label
ContentAt(doc, cfg, k) ==
    LET el == doc.elements[k]
    IN /\ el.name \in content_tags
       /\ el.text # ""
       /\ ~(/\ cfg.DISCORD_CONSOLIDATION_MODE = "recap_only"
            /\ RootAt(doc, k) \in {"discord_high_level", "discord_detailed"})
       /\ \A x \in ChromeWords : ~Contains(el.cls, x)
       /\ ~(el.name = "p" /\ el.strong /\ el.strong_text = el.text)
RedditContent(doc, cfg) ==
    {k \in 1..Len(doc.elements) : ContentAt(doc, cfg, k) /\ RootAt(doc, k) = "reddit"}
\* element k repeats, up to case and non-word characters, an earlier content
\* element of the Reddit section
Repeats(doc, cfg, k) ==
    /\ k \in RedditContent(doc, cfg)
    /\ \E j \in RedditContent(doc, cfg) :
           j < k /\ Words(doc.elements[j].text) = Words(doc.elements[k].text)
LongEnough(doc, cfg) ==
    {k \in 1..Len(doc.elements) :
        ContentAt(doc, cfg, k) /\ Len(doc.elements[k].text) > MIN_ITEM_LENGTH}
IsItem(seg) == seg.segment_type = "item"
ItemTexts(segs) ==
    LET items == SelectSeq(segs, IsItem)
    IN [i \in 1..Len(items) |-> items[i].content_raw]
TextsAt(doc, S) == [i \in 1..Cardinality(S) |-> doc.elements[Nth(S, i)].text]
WalkEmpty == ParseWalk(in_document.elements, WalkStart, config).segments_data = <<>>
Parsed == gpc = "call"

\* C18: the fingerprint of a text is its lower-cased words joined by single
\* spaces ("Hello, World!" and "hello world" have the same one).  With the
\* Reddit dedup rule on, the items the walk emits are, in order, the content
\* elements longer than the minimum that do not repeat the fingerprint of an
\* earlier content element of the Reddit section, so the emitted Reddit items
\* have pairwise distinct fingerprints; with the rule off they are all the
\* content elements longer than the minimum.
C18_RedditDedup ==
    Parsed =>
        LET doc == in_document
            kept == IF config.REDDIT_LIGHT_DEDUP
                    THEN {k \in LongEnough(doc, config) : ~Repeats(doc, config, k)}
                    ELSE LongEnough(doc, config)
        IN /\ \A k \in 1..Len(doc.elements) :
                  FingerprintForDedup(doc.elements[k].text)
                      = JoinTexts(Words(doc.elements[k].text))
           /\ FingerprintForDedup("Hello, World!") = "hello world"
           /\ IF WalkEmpty THEN kept = {}
              ELSE ItemTexts(in_segments) = TextsAt(doc, kept)
           /\ config.REDDIT_LIGHT_DEDUP =>
                  \A j \in kept, k \in kept :
                      (j < k /\ RootAt(doc, j) = "reddit" /\ RootAt(doc, k) = "reddit")
                          => FingerprintForDedup(doc.elements[j].text)
                                 # FingerprintForDedup(doc.elements[k].text)

\* the rule is on: of two Reddit paragraphs that differ in case and
\* punctuation only the first has been emitted, after the section header
C18_Witness ==
    /\ Parsed
    /\ config.REDDIT_LIGHT_DEDUP
    /\ Len(in_document.elements) = 3
    /\ in_document.elements[1].text = "AI Reddit Recap"
    /\ in_document.elements[2].text = "hello world!"
    /\ in_document.elements[3].text = "hello worlD"
    /\ Len(in_segments) = 2
    /\ in_segments[2].content_raw = "hello world!"

\* C19 (as claimed): for every document, parsing then grouping gives at
\* least one group; when the walk emits no segment the parser returns one
\* section_header holding the first 100 characters of the whole text and
\* "...", followed by one item holding the whole text.
C19_AlwaysOneGroup ==
    gpc = "returned" =>
        /\ Len(out_groups) >= 1
        /\ WalkEmpty =>
               LET text == WholeText(in_document)
               IN in_segments =
                      <<[segment_type |-> "section_header",
                         content_raw |-> SubSeq(text, 1, Min(100, Len(text))) \o "...",
                         order_index |-> 0],
                        [segment_type |-> "item", content_raw |-> text,
                         order_index |-> 1]>>

\* C20: whatever /process and /process-latest requests arrive, at most one
\* process_newsletter run for a url is in flight at a time, and the store
\* never holds the topic groups of two runs for one Issue
OneRunInFlightPerUrl ==
    \A r \in Runs, q \in Runs :
        (r # q /\ InFlight(r) /\ InFlight(q)) => run[r].url # run[q].url
GroupsOfOneRunPerIssue ==
    \A id \in {g.issue_id : g \in topic_groups} :
        Cardinality({g.run : g \in GroupRowsOf(id)}) <= 1
C20_RunsSerializedPerIssue ==
    /\ OneRunInFlightPerUrl
    /\ GroupsOfOneRunPerIssue

\* C21: the issue_id a request reports is the identifier of the Issue row
\* under which its run persisted: the value process_newsletter returned,
\* also when the url had a row before
Returned(r) == run[r].outcome = "returned"
C21_ReportedIdIsIssueId ==
    \A r \in Runs :
        Returned(r) =>
            /\ ReportedIssueId(r) = run[r].issue_id
            /\ \A g \in GroupRowsBy(r) : g.issue_id = ReportedIssueId(r)

\* C22: without force, /process-latest answers "skipped" only for a url
\* whose Issue carries the completion timestamp of a run
Skipped(r) == run[r].pc = "skipped" /\ run[r].outcome = "skipped"
C22_SkippedOnlyIfProcessed ==
    \A r \in Runs :
        Skipped(r) =>
            \E row \in IssueRowsFor(run[r].url) : row.processed_at # 0

\* C23: the rows a call stores are the same for every order in which its
\* groups completed: they are the rows of the successful groups taken in
\* ascending order_index (the store numbers the group rows in that order) and
\* of their segments, each attached to the row of its group
Successful(r) ==
    LET ok == Processed(r)
    IN [i \in 1..Cardinality(ok) |->
           ProcessGroup(run[r].groups[Nth(ok, i)], config.ENABLE_CHINESE_PROCESSING,
                        Down)]
GroupsStored(r) == run[r].pc \in {"insert_segments", "mark", "done"}
SegmentsStored(r) == run[r].pc \in {"mark", "done"}
C23_CompletionOrderIrrelevant ==
    \A r \in Runs :
        LET rows == GroupRows(Successful(r), run[r].issue_id, 0, r)
        IN /\ GroupsStored(r) =>
                  /\ run[r].processed_groups = Successful(r)
                  /\ GroupRowsBy(r) = Range(rows)
           /\ SegmentsStored(r) =>
                  SegmentRowsBy(r)
                      = Range(PrepareSegments(Successful(r), rows, run[r].issue_id, r))

\* three groups completed in descending order and the call has stored their
\* rows and segments
C23_Witness ==
    /\ run[1].pc = "done"
    /\ Len(run[1].completed) = 3
    /\ run[1].completed[1] > run[1].completed[2]
    /\ run[1].completed[2] > run[1].completed[3]
    /\ Cardinality(GroupRowsBy(1)) = 3
    /\ SegmentRowsBy(1) # {}

\* C24: a group that failed holds no permit and stops no other group: while
\* groups are pending and fewer than the width of the semaphore are running,
\* one of them can be admitted; when the threshold decision has been taken,
\* every submitted group has been recorded exactly once, as processed or as
\* failed
Pending(r) == {k \in 1..Len(run[r].gstate) : run[r].gstate[k] = "pending"}
C24_FailureIsolated ==
    \A r \in Runs :
        /\ (run[r].pc = "process" /\ Pending(r) # {}
                /\ Cardinality(Running(r)) < MAX_CONCURRENT_SEGMENTS)
               => ENABLED (\E k \in Pending(r) : Admit(r, k))
        /\ run[r].failed_groups = Cardinality(Failed(r))
        /\ Len(run[r].processed_groups) = Cardinality(Processed(r))
        /\ {g.order_index : g \in Range(run[r].processed_groups)}
               = {run[r].groups[k].order_index : k \in Processed(r)}
        /\ Decided(r) =>
               /\ Len(run[r].processed_groups) + run[r].failed_groups
                      = Len(run[r].groups)
               /\ Processed(r) \cup Failed(r) = Submitted(r)

\* the first two of four groups failed, the other two were admitted and
\* processed after them, and the decision let the call go on
C24_Witness ==
    /\ Len(run[1].groups) = 4
    /\ Failed(1) = {1, 2}
    /\ run[1].completed = <<4, 3>>
    /\ run[1].pc = "insert_groups"

\* C25: every call of process_newsletter that has started ends, whatever the
\* number of its groups, and ends in one of three ways: it returns with every
\* group stored, it returns with the successful groups stored, or it raises
ReturnedAll(r) ==
    /\ run[r].pc = "done" /\ Returned(r)
    /\ Failed(r) = {}
    /\ Cardinality(GroupRowsBy(r)) = Len(run[r].groups)
ReturnedPartial(r) ==
    /\ run[r].pc = "done" /\ Returned(r)
    /\ Failed(r) # {}
    /\ {g.order_index : g \in GroupRowsBy(r)}
           = {run[r].groups[k].order_index : k \in Processed(r)}
Raised(r) ==
    /\ run[r].pc = "raised"
    /\ run[r].outcome \in {"fetch_error", "store_error", "too_many_failed"}
C25_RunTerminates ==
    /\ \A r \in Runs : InFlight(r) ~> Finished(r)
    /\ [](\A r \in Runs :
              Finished(r) =>
                  Cardinality({b \in {ReturnedAll(r), ReturnedPartial(r), Raised(r)} :
                                  b}) = 1
                  /\ (ReturnedAll(r) \/ ReturnedPartial(r) \/ Raised(r)))

\* a call with more groups than the semaphore is wide has returned with all
\* of them stored
C25_Witness ==
    /\ Len(run[1].groups) > MAX_CONCURRENT_SEGMENTS
    /\ ReturnedAll(1)

\* C26: a secondary-language synthesis that raises, for a segment or for the
\* label of a section header, does not fail the group: the group is
\* processed, the row of that segment (that group) has audio_url_zh and
\* audio_duration_ms_zh null, and its primary-language audio fields are those
\* the primary synthesis gave
ZhAudioNull(t) == t.audio_url_zh = None /\ t.audio_duration_ms_zh = None
EnAudioOf(t, group_index, segment_index) ==
    /\ t.audio_url = AudioUrl(group_index, segment_index, "en")
    /\ t.audio_duration_ms = AudioDuration
HeaderRowsOf(r, k) ==
    {g \in GroupRowsBy(r) : g.order_index = run[r].groups[k].order_index}
C26_ZhAudioFailureTolerated ==
    \A r \in Runs : \A k \in Submitted(r) :
        run[r].reply[k].zh_raised # {} =>
            LET g == run[r].groups[k]
            IN /\ run[r].gstate[k] = "processed"
               /\ Cardinality(ProcessedGroupsOf(r, k)) = 1
               /\ \A pg \in ProcessedGroupsOf(r, k) :
                      IF SectionHeaderOnly(g)
                      THEN ZhAudioNull(pg) /\ EnAudioOf(pg, g.order_index, 0)
                      ELSE \A i \in run[r].reply[k].zh_raised :
                               /\ ZhAudioNull(pg.segments[i + 1])
                               /\ EnAudioOf(pg.segments[i + 1], g.order_index, i)
               /\ run[r].pc = "done" =>
                      IF SectionHeaderOnly(g)
                      THEN /\ HeaderRowsOf(r, k) # {}
                           /\ \A row \in HeaderRowsOf(r, k) :
                                  ZhAudioNull(row) /\ EnAudioOf(row, g.order_index, 0)
                      ELSE \A i \in run[r].reply[k].zh_raised :
                               \E s \in RowsOfGroup(r, k) :
                                   /\ s.order_index = g.segments[i + 1].order_index
                                   /\ ZhAudioNull(s)
                                   /\ EnAudioOf(s, g.order_index, i)

\* a returned call stored a section header whose secondary-language label
\* synthesis raised, and a group of which one segment lost its
\* secondary-language audio while another has it
C26_Witness ==
    /\ run[1].pc = "done"
    /\ \E k \in Submitted(1) :
           /\ SectionHeaderOnly(run[1].groups[k])
           /\ run[1].reply[k].zh_raised = {0}
    /\ \E s \in SegmentRowsBy(1), t \in SegmentRowsBy(1) :
           /\ s.topic_group_id = t.topic_group_id
           /\ s.content_clean_zh # NoText /\ s.audio_url_zh = None
           /\ t.audio_url_zh # None

\* C27: whatever the text-transform collaborator answers to the clean and
\* translate calls of a group (an exception, no JSON, no list, a list of the
\* wrong length, a list), the group is processed; a group counted as failed
\* is one whose primary-language synthesis raised, not one that got an answer
AnsweredGroup(r, k) == run[r].reply[k] # Unasked
C27_TransformNeverFailsGroup ==
    \A r \in Runs : \A k \in Submitted(r) :
        /\ AnsweredGroup(r, k) =>
               /\ run[r].gstate[k] = "processed"
               /\ Cardinality(ProcessedGroupsOf(r, k)) = 1
        /\ run[r].gstate[k] = "failed" =>
               /\ ~AnsweredGroup(r, k)
               /\ ProcessedGroupsOf(r, k) = {}

\* a returned call of which one group got no JSON for its clean call and a
\* list of the wrong length for its translate call and was stored, and
\* another failed in the primary-language synthesis
C27_Witness ==
    /\ run[1].pc = "done"
    /\ config.ENABLE_CHINESE_PROCESSING
    /\ \E k \in Submitted(1), j \in Submitted(1) :
           /\ run[1].reply[k].clean = "non_json"
           /\ Cardinality(run[1].reply[k].translated)
                  > Len(CallTexts(run[1].groups[k]))
           /\ HeaderRowsOf(1, k) # {}
           /\ run[1].gstate[j] = "failed"

\* the translation and the cleaned translation process_group gave segment i
\* of the group it returned, and what the collaborator was asked and answered
Offset == IF Truthy(in_group.label) THEN 1 ELSE 0
TranslationAt(pos) ==
    IF in_reply.translate.kind = "list" THEN in_reply.translate.data[pos] ELSE NoText
CleanZhAnswered ==
    /\ in_reply.clean_zh.kind = "list"
    /\ Len(in_reply.clean_zh.data) = Len(SentZh(in_group, in_reply.translate))
ProcessGroupReturned == gpc = "returned" /\ ~SectionHeaderOnly(in_group)
OwnCleanedTranslation(i) ==
    LET raw_zh == out_group.segments[i].content_raw_zh
        clean_zh == out_group.segments[i].content_clean_zh
    IN /\ raw_zh = TranslationAt(i + Offset)
       /\ raw_zh = NoText => clean_zh = NoText
       /\ raw_zh # NoText =>
              IF CleanZhAnswered
              THEN /\ clean_zh \in {NoText, SpokenOf(raw_zh)}
                   /\ (\A j \in DOMAIN in_reply.clean_zh.data :
                           in_reply.clean_zh.data[j] # NoText)
                          => clean_zh = SpokenOf(raw_zh)
              ELSE clean_zh = raw_zh

\* C28 (as claimed): at every position the cleaned translation is null
\* exactly when the translation is null, and otherwise it is the clean result
\* of the translation at that position
C28_CleanedZhNullIffNull ==
    ProcessGroupReturned =>
        \A i \in 1..Len(out_group.segments) :
            /\ OwnCleanedTranslation(i)
            /\ out_group.segments[i].content_clean_zh = NoText
                   => out_group.segments[i].content_raw_zh = NoText

\* C28 (amended): at every position the cleaned translation is null when the
\* translation is null, and otherwise it is what the secondary clean pass
\* gave for the translation at that position (its cleaned form, null when
\* the pass answered null for it, the translation itself when the pass
\* failed): never what it gave for another segment or for the label
C28_CleanedZhByPosition ==
    ProcessGroupReturned =>
        \A i \in 1..Len(out_group.segments) : OwnCleanedTranslation(i)

\* a labelled group of two items: the label and the second item were
\* translated, the first item was not, and the second item got the cleaned
\* form of its own translation
C28_Witness ==
    /\ ProcessGroupReturned
    /\ Offset = 1
    /\ Len(out_group.segments) = 2
    /\ out_group.label_zh = ZhOf(1)
    /\ out_group.segments[1].content_raw_zh = NoText
    /\ out_group.segments[1].content_clean_zh = NoText
    /\ out_group.segments[2].content_raw_zh = ZhOf(3)
    /\ out_group.segments[2].content_clean_zh = SpokenOf(ZhOf(3))

\* the segments of the successful groups the store returned a row for, groups
\* in ascending order_index, segments in group order
RECURSIVE Flatten(_)
Flatten(gl) == IF gl = <<>> THEN <<>> ELSE Head(gl).segments \o Flatten(Tail(gl))
Attachable(r) ==
    Flatten(SelectSeq(Successful(r),
                      LAMBDA g : \E j \in 1..Len(run[r].inserted_groups) :
                                    run[r].inserted_groups[j].order_index
                                        = g.order_index))
SegmentKey(seg) == <<seg.segment_type, seg.content_raw, seg.order_index>>
\* the rows a call has inserted when its loop stands at i
InsertedUpTo(r, i) ==
    {run[r].all_segments[k] : k \in 1..Min(i, Len(run[r].all_segments))}
BatchInserted(r) ==
    /\ run[r].pc = "insert_segments"
    /\ run'[r].i # run[r].i

\* C29: every insert call of the segment loop carries at most
\* SEGMENT_BATCH_SIZE rows, none of them inserted before, and they are the
\* rows that follow the ones already inserted in the list of all attachable
\* segments (groups in ascending order_index, segments in group order); when
\* the loop is over every row of that list has been inserted exactly once
C29_BatchesCoverAllSegments ==
    /\ [][\A r \in Runs : BatchInserted(r) =>
             LET added == segments' \ segments
             IN /\ added # {}
                /\ Cardinality(added) <= SEGMENT_BATCH_SIZE
                /\ SegmentRowsBy(r) = InsertedUpTo(r, run[r].i)
                /\ Cardinality(SegmentRowsBy(r)) = run[r].i
                /\ added = InsertedUpTo(r, run'[r].i) \ InsertedUpTo(r, run[r].i)
                /\ Cardinality(added)
                       = Min(SEGMENT_BATCH_SIZE, Len(run[r].all_segments) - run[r].i)]_vars
    /\ [](\A r \in Runs :
             /\ GroupsStored(r) =>
                    /\ Len(run[r].all_segments) = Len(Attachable(r))
                    /\ \A k \in 1..Len(run[r].all_segments) :
                           SegmentKey(run[r].all_segments[k])
                               = SegmentKey(Attachable(r)[k])
             /\ SegmentsStored(r) =>
                    /\ SegmentRowsBy(r) = Range(run[r].all_segments)
                    /\ Cardinality(SegmentRowsBy(r)) = Len(run[r].all_segments))

\* a call has inserted three segments, in two batches, and returned
C29_Witness ==
    /\ run[1].pc = "done"
    /\ Len(run[1].all_segments) = SEGMENT_BATCH_SIZE + 1
    /\ run[1].i = 2 * SEGMENT_BATCH_SIZE
    /\ Cardinality(SegmentRowsBy(1)) = SEGMENT_BATCH_SIZE + 1

\* C30: the step at which the fetch of a call fails leaves every row of the
\* store as it was, and a call that ended on a fetch error has parsed
\* nothing, resolved no Issue id and written no row: it raised out of the
\* fetch, before the upsert and before any delete or insert
FetchFailed(r) == run[r].outcome = "fetch_error"
C30_FetchFailureTouchesNoRow ==
    /\ [][\A r \in Runs : (~FetchFailed(r) /\ FetchFailed(r)') =>
             /\ run[r].pc = "fetch"
             /\ UNCHANGED <<issues, topic_groups, segments, group_seq>>]_vars
    /\ [](\A r \in Runs : FetchFailed(r) =>
             /\ run[r].pc \in {"raised", "retired"}
             /\ run[r].issue_id = None
             /\ run[r].segments_data = <<>>
             /\ GroupRowsBy(r) = {}
             /\ SegmentRowsBy(r) = {}
             /\ ~Stamped(r))

\* the fetch of a second call on a url failed, and the Issue row, the group
\* rows and the segment rows the first call stored for it are all there
C30_Witness ==
    /\ FetchFailed(2)
    /\ run[1].outcome = "returned"
    /\ run[1].url = run[2].url
    /\ \E row \in issues : row.url = run[2].url /\ row.id = run[1].issue_id
    /\ GroupRowsBy(1) # {}
    /\ SegmentRowsBy(1) # {}
    /\ Stamped(1)

\* element k is met under the Discord high-level or detailed root section
UnderDiscordDetail(doc, k) ==
    RootAt(doc, k) \in {"discord_high_level", "discord_detailed"}
\* the document without the elements of the two Discord sections
OutsideDiscordDetail(doc) ==
    LET keep == {k \in 1..Len(doc.elements) : ~UnderDiscordDetail(doc, k)}
    IN [doc EXCEPT !.elements = [i \in 1..Cardinality(keep) |->
                                    doc.elements[Nth(keep, i)]]]
RecapOnly == config.DISCORD_CONSOLIDATION_MODE = "recap_only"
ConsolidationOff == [config EXCEPT !.DISCORD_CONSOLIDATION_MODE = "off"]

SegmentsOfFailed(r) ==
    UNION {{run[r].groups[k].segments[i].order_index :
               i \in 1..Len(run[r].groups[k].segments)} : k \in Failed(r)}
C32_PersistedSegmentsHaveAudio ==
    \A s \in segments :
        /\ s.audio_url # None
        /\ s.audio_duration_ms # None
        /\ s.order_index \notin SegmentsOfFailed(s.run)
        /\ \E k \in Processed(s.run) :
               \E i \in 1..Len(run[s.run].groups[k].segments) :
                   /\ run[s.run].groups[k].segments[i].order_index = s.order_index
                   /\ s.audio_url = AudioUrl(run[s.run].groups[k].order_index, i - 1, "en")

\* a call has returned: a group with segments failed and the segments of
\* another group are stored
C32_Witness ==
    /\ run[1].outcome = "returned"
    /\ SegmentsOfFailed(1) # {}
    /\ segments # {}
    /\ \A s \in segments : s.audio_duration_ms = AudioDuration

\* C33: no step of a call but its final update changes the completion
\* timestamp of an Issue row, so a call that reprocesses a url an earlier call
\* completed leaves the timestamp of the earlier call in place: from its
\* deletes to its final update, and for good when it aborts under the
\* threshold policy, no group row and no segment row of the earlier call is
\* left and get_issue_status still answers "completed"
RowsDeleted(r) ==
    \/ run[r].pc \in {"process", "insert_groups", "insert_segments", "mark"}
    \/ run[r].outcome = "too_many_failed"
StampOf(u) == {row.processed_at : row \in IssueRowsFor(u)}
C33_StampSurvivesReprocessing ==
    /\ [][\A u \in Range(Urls) :
             StampOf(u)' # StampOf(u) =>
                 (IssueRowsFor(u) = {} \/ \E r \in Runs : run[r].pc = "mark"
                                                            /\ run[r].url = u)]_vars
    /\ [](\A q \in Runs, r \in Runs :
             (Reprocesses(r, q) /\ run[q].outcome = "returned" /\ RowsDeleted(r)
                  /\ run[r].pc # "done") =>
                 /\ run[r].issue_id = run[q].issue_id
                 /\ StampOf(run[r].url) = {q}
                 /\ GroupRowsBy(q) = {}
                 /\ SegmentRowsBy(q) = {}
                 /\ GetIssueStatus(issues, segments, run[r].issue_id) # None
                 /\ GetIssueStatus(issues, segments, run[r].issue_id)[1].status
                        = "completed")

\* the second call on a url aborted under the threshold policy: the rows the
\* first call stored are gone, none was stored, and the status is "completed"
C33_Witness ==
    /\ Reprocesses(2, 1)
    /\ run[1].outcome = "returned"
    /\ run[2].outcome = "too_many_failed"
    /\ GroupRowsOf(run[2].issue_id) = {}
    /\ GetIssueStatus(issues, segments, run[2].issue_id)
           = <<[segment_count |-> 0, status |-> "completed"]>>

\* the audio objects the rows of an issue point to: the keys of the
\* primary- and secondary-language audio of its segment rows and group rows
AudioReferences(id) ==
    {[row |-> <<"segment", s.order_index>>, key |-> s.audio_url] :
        s \in {x \in SegmentRowsOf(id) : x.audio_url # None}}
    \cup {[row |-> <<"segment", s.order_index>>, key |-> s.audio_url_zh] :
             s \in {x \in SegmentRowsOf(id) : x.audio_url_zh # None}}
    \cup {[row |-> <<"group", g.id>>, key |-> g.audio_url] :
             g \in {x \in GroupRowsOf(id) : x.audio_url # None}}
    \cup {[row |-> <<"group", g.id>>, key |-> g.audio_url_zh] :
             g \in {x \in GroupRowsOf(id) : x.audio_url_zh # None}}

\* C34: the audio of a row of an issue is never uploaded under the key of an
\* object another row of the issue points to: after a full run and after a
\* backfill of section headers or of the secondary language, no two rows of
\* an issue point to the same object
C34_AudioObjectsNotShared ==
    \A row \in issues :
        \A a \in AudioReferences(row.id), b \in AudioReferences(row.id) :
            a.key = b.key => a.row = b.row

\* ------------------------------------------------------ the voice WebSocket
\* what the voice actions leave alone
batch == <<store, run, in_segments, out_groups, gpc, in_document, in_group, in_reply,
           out_group, config>>

AUDIO_QUEUE_MAXSIZE == 80   \* asyncio.Queue(maxsize=80)
EndOfStream == 0            \* the None that ends the audio queue; chunks are 1, 2, ...

\* the text messages of a client, as json.loads reads them; raw "" is the empty
\* text, json FALSE a text that is no JSON
ClientTexts ==
    {[raw |-> "", json |-> FALSE, type |-> NoText, resumeHandle |-> NoText,
      handle |-> NoText],
     [raw |-> "hello", json |-> FALSE, type |-> NoText, resumeHandle |-> NoText,
      handle |-> NoText]}
    \cup [raw : {"{}"}, json : {TRUE}, type : {"start", "resume", "stop"},
          resumeHandle : {NoText, "", "h1"}, handle : {NoText, "h2"}]

\* handle_client_text: the resume handle and the acknowledgement it sends
HandleClientText(v, to_client, payload) ==
    IF ~payload.json THEN [voice |-> v, to_client |-> to_client]
    ELSE IF payload.type = "start" /\ payload.resumeHandle \notin {NoText, ""}
    THEN [voice |-> [v EXCEPT !.resume_handle = payload.resumeHandle],
          to_client |-> Append(to_client, "start_ack")]
    ELSE IF payload.type = "resume" /\ payload.handle \notin {NoText, ""}
    THEN [voice |-> [v EXCEPT !.resume_handle = payload.handle],
          to_client |-> Append(to_client, "resume_ack")]
    ELSE [voice |-> v, to_client |-> to_client]

\* voice_mode_ws up to asyncio.gather. valid: issue_id is a UUID; gone:
\* receive_text raises; first: the text it gives within 1.5 s, or TimedOut;
\* context: what _fetch_issue_context returns. A non-empty start payload is
\* handed to voice_session._handle_client_text, a name VoiceSession does not
\* define: the handler raises AttributeError before asyncio.gather.
VoiceModeWs ==
    /\ wire.ws.pc = "off"
    /\ \E valid \in BOOLEAN, gone \in BOOLEAN, first \in {TimedOut} \cup ClientTexts,
          context \in {"", "text of the issue"} :
        LET truthy == first.raw \notin {NoText, ""}
            outcome == IF ~valid THEN "closed"
                       ELSE IF gone THEN "returned"
                       ELSE IF context = "" THEN "closed"
                       ELSE IF truthy THEN "raised"
                       ELSE "gather"
        IN /\ voice' = NoVoice
           /\ wire' = [wire EXCEPT
                  !.ws = [pc |-> outcome, start_payload |-> first],
                  !.to_client = IF valid /\ ~gone /\ context = ""
                                THEN <<"error">> ELSE <<>>,
                  !.task = IF outcome = "gather"
                           THEN [@ EXCEPT !["listener"].pc = "receive",
                                          !["run"].pc = "start"]
                           ELSE @]
    /\ UNCHANGED batch

\* enqueue_audio keeping a full queue as it is
EnqueueAudio_DropsNewest(queue, chunk) ==
    IF Len(queue) < AUDIO_QUEUE_MAXSIZE THEN Append(queue, chunk) ELSE queue

\* enqueue_audio: put_nowait; on QueueFull get_nowait, then put_nowait again
EnqueueAudio(queue, chunk) ==
    IF Len(queue) < AUDIO_QUEUE_MAXSIZE THEN Append(queue, chunk)
    ELSE LET made_room == IF queue = <<>> THEN queue ELSE Tail(queue)
         IN IF Len(made_room) < AUDIO_QUEUE_MAXSIZE THEN Append(made_room, chunk)
            ELSE made_room

\* listen_to_client receives bytes: the limit-th chunk at most
ClientBytes(limit) ==
    /\ wire.task["listener"].pc = "receive"
    /\ wire.arrived < limit
    /\ voice' = [voice EXCEPT
           !.audio_queue = EnqueueAudio(voice.audio_queue, wire.arrived + 1)]
    /\ wire' = [wire EXCEPT !.arrived = @ + 1]
    /\ UNCHANGED batch

\* listen_to_client receives a text
ClientText ==
    /\ wire.task["listener"].pc = "receive"
    /\ wire.texts < MaxTexts
    /\ \E payload \in ClientTexts :
        LET handled == HandleClientText(voice, wire.to_client, payload)
        IN /\ voice' = handled.voice
           /\ wire' = [wire EXCEPT !.texts = @ + 1, !.to_client = handled.to_client]
    /\ UNCHANGED batch

\* listen_to_client: receive raises; the stop event is set and None is put on
\* the queue, which waits while the queue is full
ClientGone ==
    /\ wire.task["listener"].pc = "receive"
    /\ LET room == Len(voice.audio_queue) < AUDIO_QUEUE_MAXSIZE
       IN /\ voice' = [voice EXCEPT
                  !.stop_event = TRUE,
                  !.audio_queue = IF room THEN Append(@, EndOfStream) ELSE @]
          /\ wire' = [wire EXCEPT
                  !.task["listener"].pc = IF room THEN "close" ELSE "put"]
    /\ UNCHANGED batch

\* the waiting put(None) goes through once the queue has room
PutEndOfStream ==
    /\ wire.task["listener"].pc = "put"
    /\ Len(voice.audio_queue) < AUDIO_QUEUE_MAXSIZE
    /\ voice' = [voice EXCEPT !.audio_queue = Append(@, EndOfStream)]
    /\ wire' = [wire EXCEPT !.task["listener"].pc = "close"]
    /\ UNCHANGED batch

\* where a task goes on after _ensure_session and after _reset_session or
\* _close_session (the sleep that follows a reset included)
AfterClose(t, attempt) ==
    CASE t = "receiver" -> "loop"
      [] t = "sender" -> IF attempt = 0 THEN "ensure" ELSE "loop"
      [] OTHER -> "done"

\* _ensure_session up to its first await: with the lock free, the session at
\* hand is returned, or _open_session creates the connection and awaits
\* __aenter__ with the lock held
Ensure(t) ==
    /\ wire.task[t].pc = "ensure"
    /\ voice.session_lock = "free"
    /\ IF voice.session # None
       THEN /\ wire' = [wire EXCEPT !.task[t].pc = "call"]
            /\ UNCHANGED voice
       ELSE /\ Len(wire.gemini) < MaxSessions
            /\ LET cm == <<Len(wire.gemini) + 1>>
               IN /\ voice' = [voice EXCEPT !.session_cm = cm, !.session_lock = t]
                  /\ wire' = [wire EXCEPT
                         !.task[t].pc = "opening", !.task[t].cm = cm,
                         !.gemini = Append(@, [entered |-> FALSE, exits |-> 0])]
    /\ UNCHANGED batch

\* __aenter__ returns: _open_session stores the session, the lock is released
Opened(t) ==
    /\ wire.task[t].pc = "opening"
    /\ voice' = [voice EXCEPT !.session = wire.task[t].cm, !.session_lock = "free"]
    /\ wire' = [wire EXCEPT
           !.task[t].pc = "call", !.task[t].cm = None,
           !.gemini[wire.task[t].cm[1]].entered = TRUE]
    /\ UNCHANGED batch

\* _close_session up to its await: __aexit__ of the connection at hand is
\* awaited, or with none both fields are cleared at once
Close(t) ==
    /\ wire.task[t].pc = "close"
    /\ IF voice.session_cm # None
       THEN /\ wire' = [wire EXCEPT !.task[t].pc = "closing",
                                    !.task[t].cm = voice.session_cm]
            /\ UNCHANGED voice
       ELSE /\ voice' = [voice EXCEPT !.session = None, !.session_cm = None]
            /\ wire' = [wire EXCEPT
                   !.task[t].pc = AfterClose(t, wire.task[t].attempt),
                   !.task[t].attempt = IF t = "sender" THEN 1 - @ ELSE @]
    /\ UNCHANGED batch

\* __aexit__ returns: both fields are cleared
Closed(t) ==
    /\ wire.task[t].pc = "closing"
    /\ voice' = [voice EXCEPT !.session = None, !.session_cm = None]
    /\ wire' = [wire EXCEPT
           !.task[t].pc = AfterClose(t, wire.task[t].attempt),
           !.task[t].attempt = IF t = "sender" THEN 1 - @ ELSE @,
           !.task[t].cm = None,
           !.gemini[wire.task[t].cm[1]].exits = @ + 1]
    /\ UNCHANGED batch

\* run creates the receiver and the sender task and waits for them
RunStart ==
    /\ wire.task["run"].pc = "start"
    /\ wire' = [wire EXCEPT !.task["run"].pc = "wait",
                            !.task["receiver"].pc = "loop",
                            !.task["sender"].pc = "loop"]
    /\ UNCHANGED <<batch, voice>>

\* both tasks are done: run sets the stop event and closes the session
RunWait ==
    /\ wire.task["run"].pc = "wait"
    /\ wire.task["receiver"].pc = "done"
    /\ wire.task["sender"].pc = "done"
    /\ voice' = [voice EXCEPT !.stop_event = TRUE]
    /\ wire' = [wire EXCEPT !.task["run"].pc = "close"]
    /\ UNCHANGED batch

\* _forward_gemini: the test of its while loop
ReceiverLoop ==
    /\ wire.task["receiver"].pc = "loop"
    /\ wire' = [wire EXCEPT
           !.task["receiver"].pc = IF voice.stop_event THEN "done" ELSE "ensure"]
    /\ UNCHANGED <<batch, voice>>

\* session.receive() ends ("end") or raises ("raise")
Receive(outcomes) ==
    /\ wire.task["receiver"].pc = "call"
    /\ \E outcome \in outcomes :
           wire' = [wire EXCEPT
               !.task["receiver"].pc = IF outcome = "raise" THEN "close" ELSE "loop"]
    /\ UNCHANGED <<batch, voice>>

\* _forward_client_audio: the test of its while loop and queue.get(), which
\* returns at once when the queue holds an item
SenderLoop ==
    /\ wire.task["sender"].pc \in {"loop", "get"}
    /\ IF wire.task["sender"].pc = "loop" /\ voice.stop_event
       THEN /\ wire' = [wire EXCEPT !.task["sender"].pc = "done"]
            /\ UNCHANGED voice
       ELSE IF voice.audio_queue = <<>>
       THEN /\ wire.task["sender"].pc = "loop"
            /\ wire' = [wire EXCEPT !.task["sender"].pc = "get"]
            /\ UNCHANGED voice
       ELSE /\ voice' = [voice EXCEPT !.audio_queue = Tail(@)]
            /\ wire' = [wire EXCEPT
                   !.task["sender"].pc = IF Head(voice.audio_queue) = EndOfStream
                                         THEN "done" ELSE "ensure",
                   !.task["sender"].attempt = 0]
    /\ UNCHANGED batch

\* send_realtime_input returns ("ok") or raises ("raise")
Send(outcomes) ==
    /\ wire.task["sender"].pc = "call"
    /\ \E outcome \in outcomes :
           wire' = [wire EXCEPT
               !.task["sender"].pc = IF outcome = "raise" THEN "close" ELSE "loop",
               !.task["sender"].attempt = IF outcome = "raise" THEN @ ELSE 0]
    /\ UNCHANGED <<batch, voice>>

\* the steps of the tasks of a session; gemini: what the calls on a Gemini Live
\* session do
VoiceTasks(gemini) ==
    \/ RunStart
    \/ RunWait
    \/ ReceiverLoop
    \/ Receive({"end"} \cup gemini)
    \/ SenderLoop
    \/ Send({"ok"} \cup gemini)
    \/ \E t \in Tasks : Ensure(t)
    \/ \E t \in Tasks : Opened(t)
    \/ \E t \in Tasks : Close(t)
    \/ \E t \in Tasks : Closed(t)

\* a voice WebSocket whose Gemini Live calls all return
NextVoice ==
    \/ VoiceModeWs
    \/ ClientBytes(MaxChunks)
    \/ ClientGone
    \/ PutEndOfStream
    \/ VoiceTasks({})

SpecVoice == Init /\ [][NextVoice]_vars

\* ---------------------------------------------------------------- C35
\* the chunks on the audio queue, the None that ends it left out
QueuedChunks ==
    SelectSeq(voice.audio_queue, LAMBDA c : c # EndOfStream)

\* the queue holds the chunks that arrived last, oldest first
MostRecentInOrder ==
    \A i \in 1..Len(QueuedChunks) :
        QueuedChunks[i] = wire.arrived - Len(QueuedChunks) + i

\* a chunk arrives: the listener goes on receiving, and a full queue has lost
\* its oldest entry and nothing else
EnqueueStep ==
    wire'.arrived = wire.arrived + 1 =>
        /\ wire'.task["listener"].pc = "receive"
        /\ voice'.audio_queue =
               Append(IF Len(voice.audio_queue) = AUDIO_QUEUE_MAXSIZE
                      THEN Tail(voice.audio_queue) ELSE voice.audio_queue,
                      wire'.arrived)

\* C35: enqueue_audio never waits; the audio queue never holds more than 80
\* entries; a chunk arriving at a full queue replaces the oldest entry, so the
\* queue always holds the chunks that arrived last, in the order they arrived.
C35_QueueKeepsMostRecent ==
    /\ [](Len(voice.audio_queue) <= AUDIO_QUEUE_MAXSIZE /\ MostRecentInOrder)
    /\ [][EnqueueStep]_vars

\* 82 chunks arrived before run created the sender: the queue holds chunks 3..82
C35_Witness ==
    /\ wire.task["run"].pc = "start"
    /\ wire.arrived = AUDIO_QUEUE_MAXSIZE + 2
    /\ Len(voice.audio_queue) = AUDIO_QUEUE_MAXSIZE
    /\ Head(voice.audio_queue) = 3

\* ------------------------------------------------- messages of Gemini Live
\* the input transcriptions of the messages and what _detect_command makes of
\* them: "next please" is the command next, "uh" and the empty text are none
DetectCommand(text) ==
    IF text = "next please" THEN "next" ELSE NoText

\* the messages session.receive() yields: function calls, and with
\* server_content an input transcription (text and finished), an output
\* transcription, one of turn_complete, generation_complete and
\* waiting_for_input (flag), inline data of the model turn; data and text; of
\* the four outputs one at most. None carries session_resumption_update or
\* go_away.
ServerMessages ==
    LET Calls == {<<>>, <<"next">>, <<"pause">>, <<"next", "next">>}
        Heard == {<<"", TRUE>>, <<"uh", TRUE>>, <<"next please", TRUE>>,
                  <<"next please", FALSE>>}
        Output == {"", "output_transcription", "inline_data", "data", "text"}
        Message(c, s, h, f, o) ==
            [function_calls |-> c, server_content |-> s,
             input_transcription |-> h[1], finished |-> h[2],
             output_transcription |-> o = "output_transcription", flag |-> f,
             inline_data |-> o = "inline_data", data |-> o = "data",
             text |-> o = "text"]
    IN {Message(c, TRUE, h, f, o) :
            c \in Calls, h \in Heard, f \in BOOLEAN, o \in Output}
       \cup {Message(c, FALSE, <<"", TRUE>>, FALSE, o) :
                 c \in Calls, o \in {"", "data", "text"}}

\* the smaller of a smallest gap so far and one more gap
Least(gap, g) == IF gap = None \/ g < gap[1] THEN <<g>> ELSE gap

\* a command is emitted as tool_call at time now: _last_command_text,
\* _last_command_time and _suppress_output are set, then _emit_tool_call
EmitToolCall(st, command, now) ==
    [st EXCEPT
        !.voice.last_command_text = command,
        !.voice.last_command_time = now,
        !.voice.suppress_output = TRUE,
        !.heard.emitted = TRUE,
        !.heard.last_emit[command] = <<now>>,
        !.heard.same_gap = IF st.heard.last_emit[command] = None THEN @
                           ELSE Least(@, now - st.heard.last_emit[command][1]),
        !.heard.row_gap = IF st.voice.last_command_text # command THEN @
                          ELSE Least(@, now - st.voice.last_command_time)]

\* the loop over function_calls emitting every call
RECURSIVE ToolCalls_NoWindow(_, _, _)
ToolCalls_NoWindow(st, function_calls, now) ==
    IF function_calls = <<>> THEN st
    ELSE ToolCalls_NoWindow(
             [EmitToolCall(st, Head(function_calls), now)
                  EXCEPT !.heard.acks = Append(@, 1)],
             Tail(function_calls), now)

\* the loop over function_calls: a call named as the last command less than
\* 1.0 s after it is acknowledged only, any other is emitted and acknowledged;
\* acks: how often _send_tool_ack calls send_tool_response for each call
RECURSIVE ToolCalls(_, _, _)
ToolCalls(st, function_calls, now) ==
    IF function_calls = <<>> THEN st
    ELSE LET call == Head(function_calls)
             repeated == /\ call = st.voice.last_command_text
                         /\ now - st.voice.last_command_time < TicksPerSecond
         IN ToolCalls(
                [(IF repeated THEN st ELSE EmitToolCall(st, call, now))
                     EXCEPT !.heard.acks = Append(@, 1)],
                Tail(function_calls), now)

\* _handle_server_message on a message at time now; st: the session's fields
\* (voice) and what has been sent to the peers (heard): for this message the
\* number of function calls, whether a command was emitted, the
\* acknowledgements, the outputs carried and forwarded, whether a command was
\* awaiting the end of its turn before (awaited) and is after it (pending);
\* for all messages the last emission of each name and the least time between
\* two emissions of one name (same_gap), and of one name in a row (row_gap)
HandleServerMessage(st, message, now) ==
    LET fresh == [st EXCEPT !.heard.emitted = FALSE, !.heard.acks = <<>>,
                            !.heard.calls = Len(message.function_calls),
                            !.heard.awaited = st.heard.pending]
        called == ToolCalls(fresh, message.function_calls, now)
        command == DetectCommand(message.input_transcription)
        transcribed ==
            IF /\ message.server_content
               /\ message.input_transcription # ""
               /\ message.finished
               /\ command # NoText
               /\ \/ command # called.voice.last_command_text
                  \/ now - called.voice.last_command_time > TicksPerSecond
            THEN EmitToolCall(called, command, now)
            ELSE called
        transcript == IF /\ ~transcribed.voice.suppress_output
                         /\ message.server_content
                         /\ message.output_transcription
                      THEN {"transcript"} ELSE {}
        suppress == IF message.server_content /\ message.flag
                    THEN FALSE ELSE transcribed.voice.suppress_output
        audio == IF ~suppress /\ message.data THEN {"audio"}
                 ELSE IF ~suppress /\ message.server_content /\ message.inline_data
                 THEN {"audio"} ELSE {}
        text == IF ~suppress /\ message.text THEN {"text"} ELSE {}
    IN [transcribed EXCEPT
           !.voice.suppress_output = suppress,
           !.heard.pending = IF message.server_content /\ message.flag THEN FALSE
                             ELSE st.heard.pending \/ transcribed.heard.emitted,
           !.heard.forwarded = transcript \cup audio \cup text,
           !.heard.carried =
               (IF message.server_content /\ message.output_transcription
                THEN {"transcript"} ELSE {})
               \cup (IF message.data \/ (message.server_content /\ message.inline_data)
                     THEN {"audio"} ELSE {})
               \cup (IF message.text THEN {"text"} ELSE {})]

\* session.receive() yields a message, which _forward_gemini hands to
\* _handle_server_message
ServerMessage ==
    /\ wire.task["receiver"].pc = "call"
    /\ \E message \in ServerMessages :
        LET st == HandleServerMessage([voice |-> voice, heard |-> wire.heard],
                                      message, wire.now)
        IN /\ voice' = st.voice
           /\ wire' = [wire EXCEPT !.heard = st.heard]
    /\ UNCHANGED batch

\* the event loop's clock advances
Tick ==
    /\ wire.now < MaxClock
    /\ wire' = [wire EXCEPT !.now = @ + 1]
    /\ UNCHANGED <<batch, voice>>

\* a voice WebSocket whose receive loop hears the messages of one session
NextVoiceMessages ==
    \/ VoiceModeWs
    \/ RunStart
    \/ ReceiverLoop
    \/ \E t \in Tasks : Ensure(t)
    \/ \E t \in Tasks : Opened(t)
    \/ ServerMessage
    \/ Tick

SpecVoiceMessages == Init /\ [][NextVoiceMessages]_vars

\* ---------------------------------------------------------------- C36
\* every function call of the message handled last was acknowledged once
AcknowledgedOnce ==
    /\ Len(wire.heard.acks) = wire.heard.calls
    /\ \A i \in 1..Len(wire.heard.acks) : wire.heard.acks[i] = 1

C37_OutputHeldUntilTurnEnds ==
    /\ (wire.heard.awaited \/ wire.heard.emitted) => wire.heard.forwarded = {}
    /\ ~(wire.heard.awaited \/ wire.heard.emitted) =>
           wire.heard.forwarded = wire.heard.carried

\* a voice WebSocket whose Gemini Live calls return or raise; its queue never
\* fills, so that the None put on it never waits
NextVoiceFaults ==
    \/ VoiceModeWs
    \/ ClientBytes(MaxFaultChunks)
    \/ ClientText
    \/ ClientGone
    \/ VoiceTasks({"raise"})

SpecVoiceFaults == Init /\ [][NextVoiceFaults]_vars

\* ---------------------------------------------------------------- C38
\* the Gemini Live sessions entered and not left
OpenSessions ==
    {k \in 1..Len(wire.gemini) : wire.gemini[k].entered /\ wire.gemini[k].exits = 0}

\* C38: however the receive loop, the audio sender and the client listener
\* interleave, at most one Gemini Live session is open at a time, no session is
\* closed twice, and once run and listen_to_client have both finished every
\* session that was opened has been closed.
C38_OneSessionClosedOnce ==
    /\ Cardinality(OpenSessions) <= 1
    /\ \A k \in 1..Len(wire.gemini) : wire.gemini[k].exits <= 1
    /\ (wire.task["run"].pc = "done" /\ wire.task["listener"].pc = "done") =>
           OpenSessions = {}

\* ---------------------------------------------------------------- C39
\* the event loop runs every task that can go on, and every call on a Gemini
\* Live session returns
SpecVoiceLive == SpecVoice /\ WF_vars(VoiceTasks({})) /\ WF_vars(PutEndOfStream)

\* C39: after the client's WebSocket is gone, the session shuts down:
\* listen_to_client sets the stop event, puts the end-of-stream None on the
\* queue and returns, the audio sender and the receive loop stop and run
\* returns, every Gemini call returning or raising; and no chunk is sent to
\* Gemini once the sender has taken the None from the queue.
C39_ShutsDownAfterDisconnect ==
    /\ (wire.task["listener"].pc \notin {"off", "receive"}) ~>
           (voice.stop_event /\ \A t \in Tasks : wire.task[t].pc = "done")
    /\ [][wire.task["sender"].pc = "done" => wire'.task["sender"].pc = "done"]_vars

\* ---------------------------------------------------------------- C40
\* C40: a text the client sends within 1.5 s of the accept, if not empty, is
\* handled as a control message before the loops start: a start message with a
\* resumeHandle sets the resume handle and is answered with start_ack, and the
\* listener and the session loops then start.
C40_StartPayloadHandled ==
    LET first == wire.ws.start_payload
    IN (wire.ws.pc \notin {"off", "closed", "returned"} /\ first.raw \notin {NoText, ""}) =>
           /\ wire.ws.pc = "gather"
           /\ wire.task["listener"].pc # "off"
           /\ wire.task["run"].pc # "off"
           /\ (first.json /\ first.type = "start"
                   /\ first.resumeHandle \notin {NoText, ""}) =>
                  /\ voice.resume_handle = first.resumeHandle \/ wire.texts > 0
                  /\ \E i \in 1..Len(wire.to_client) : wire.to_client[i] = "start_ack"

====
